---- MODULE Spec2Model ----
(***************************************************************************)
(* Model of the "new-style" LHA decoder (-lh4- .. -lh7-) of lhasa,         *)
(* lib/lh_new_decoder.c, and of the reader glue in lib/lha_reader.c.       *)
(*                                                                         *)
(* C functions that take the decoder by pointer and return a status are    *)
(* operators from a decoder record to a record [dec, ret]: dec is the      *)
(* decoder after the call and ret is the C return value.                   *)
(***************************************************************************)
EXTENDS Integers, Sequences, FiniteSets, TLC

VARIABLES
    decoder,      \* the LHANewDecoder structure of the instance under test
    result,       \* return value of the last lha_lh_new_read, -1 before any
    buf,          \* cells of the caller's buffer written by the last read
    trace,        \* what the last read did (headers read, code, offset)
    total,        \* every byte emitted so far, oldest first
    zero_seen,    \* TRUE once a read on decoder has returned 0
    decoder2,     \* a second instance (two-instance runs)
    sources,      \* the byte sources the callbacks of two instances read
    results1,     \* results of the reads made on decoder, in call order
    results2,     \* results of the reads made on decoder2, in call order
    reader,       \* the LHAReader structure
    objects,      \* the LHADecoder objects created so far, by handle
    basic,        \* the LHABasicReader under the reader
    dirs,           \* the paths of the directories of the file system
    last,         \* the last call made on the reader and what it returned
    history,      \* what the calls on the reader have pushed and returned
    ahead         \* the outcome of the next read on decoder (SpecLive)

vars == <<decoder, result, buf, trace, total, zero_seen,
          decoder2, sources, results1, results2, reader, objects, basic, dirs,
          last, history, ahead>>

-----------------------------------------------------------------------------
(* Program constants.                                                      *)

COPY_THRESHOLD == 3

NUM_CODES == 510

MAX_TEMP_CODES == 20

\* The leaf flag of a 16-bit TreeElement.
TREE_NODE_LEAF == 32768

\* No symbol: trace value of a code or offset that was never read.
NONE == -2

Methods == {"lh4", "lh5", "lh6", "lh7"}

HISTORY_BITS(m) ==
    CASE m = "lh4" -> 12 [] m = "lh5" -> 13 [] m = "lh6" -> 15 [] m = "lh7" -> 16

OFFSET_BITS(m) ==
    CASE m = "lh4" -> 4 [] m = "lh5" -> 4 [] m = "lh6" -> 5 [] m = "lh7" -> 5

RING_BUFFER_SIZE(m) == 2 ^ HISTORY_BITS(m)

OUTPUT_BUFFER_SIZE(m) == RING_BUFFER_SIZE(m)

\* "unsigned int" is 32 bits wide; a value is kept as its two 16-bit halves.
HALF == 65536

\* a conversion that takes a negative x to 0
U32_clamped(x) ==
    IF x < 0 THEN [hi |-> 0, lo |-> 0]
    ELSE [hi |-> (x \div HALF) % HALF, lo |-> x % HALF]

\* the integer x converted to unsigned int (x may be negative)
U32(x) == [hi |-> (x \div HALF) % HALF, lo |-> x % HALF]

\* u + i in unsigned int arithmetic, 0 <= i
U32Add(u, i) ==
    [hi |-> (u.hi + ((u.lo + i) \div HALF)) % HALF, lo |-> (u.lo + i) % HALF]

\* u % m in unsigned int arithmetic, 0 < m <= HALF
U32Rem(u, m) == (((u.hi % m) * (HALF % m)) + u.lo) % m

Min(a, b) == IF a < b THEN a ELSE b

\* A local variable of the code: Body evaluated with the variable holding v.
With(v, Body(_)) == Body(v)

-----------------------------------------------------------------------------
(* Bit stream reader.  data is the bytes the callback has for the reader,  *)
(* fetched the number of them the reader has taken from the callback into  *)
(* its buffer, and pos the number of bits consumed.                        *)

\* bit k (0 = first) of the byte stream, most significant bit of a byte first
StreamBit(data, k) == (data[(k \div 8) + 1] \div (2 ^ (7 - (k % 8)))) % 2

RECURSIVE StreamBits(_, _, _)
StreamBits(data, pos, n) ==
    IF n = 0 THEN 0
    ELSE 2 * StreamBits(data, pos, n - 1) + StreamBit(data, pos + n - 1)

\* asked is the set of the bit counts that read_bits was called with so
\* far.  wide_ok is the outcome of a call for more than MAX_READ_BITS bits,
\* which the contract of read_bits leaves open: the bits, or failure.
\* refill is the most bytes the reader asks the callback for at a time.
bit_stream_reader_init(data) ==
    [data |-> data, pos |-> 0, asked |-> {}, wide_ok |-> TRUE,
     fetched |-> 0, refill |-> 1]

\* the most bits one call of read_bits is to be asked for
MAX_READ_BITS == 16

BitsLeft(d) == 8 * Len(d.bit_stream_reader.data) - d.bit_stream_reader.pos

\* The refill of the reader b for a read of n bits, with fetched bytes
\* taken so far: while the buffer holds fewer than n bits the reader asks
\* the callback for as many bytes as the 32-bit accumulator has room for,
\* b.refill at most, and the callback gives what it has of them.  The
\* number of bytes taken when the buffer holds n bits.
RECURSIVE Refill(_, _, _)
Refill(b, n, fetched) ==
    LET bits == 8 * fetched - b.pos
        room == IF bits + 8 > 32 THEN 1 ELSE (32 - bits) \div 8
    IN  IF bits >= n THEN fetched
        ELSE Refill(b, n, fetched + Min(Min(b.refill, room),
                                        Len(b.data) - fetched))

\* read_bits: the next n bits, or -1 with nothing consumed when the source
\* cannot supply n bits; the reader has then taken every byte the callback
\* had.
read_bits(d, n) ==
    LET b == d.bit_stream_reader
        d1 == [d EXCEPT !.bit_stream_reader.asked = @ \cup {n}]
    IN  IF n = 0 THEN [dec |-> d1, ret |-> 0]
        ELSE IF BitsLeft(d) < n
        THEN [dec |-> [d1 EXCEPT !.bit_stream_reader.fetched = Len(b.data)],
              ret |-> -1]
        ELSE IF n > MAX_READ_BITS /\ ~b.wide_ok
        THEN [dec |-> d1, ret |-> -1]
        ELSE [dec |-> [d1 EXCEPT !.bit_stream_reader.pos = @ + n,
                                 !.bit_stream_reader.fetched =
                                     Refill(b, n, b.fetched)],
              ret |-> StreamBits(b.data, b.pos, n)]

read_bit(d) == read_bits(d, 1)

-----------------------------------------------------------------------------
(* Loops.  A loop of the C code is a step operator on the loop's state s   *)
(* (its variables and a flag done, set when the loop has exited) and       *)
(* Run(kind, s, k): k iterations of the loop, or fewer when it exits       *)
(* earlier.  k is a bound on the number of iterations the loop can make;   *)
(* a loop of the decoder that has not exited after k iterations sets the   *)
(* decoder's flag stuck.                                                   *)

RECURSIVE Run(_, _, _)

Finish(f) == IF f.done THEN f.dec ELSE [f.dec EXCEPT !.stuck = TRUE]

-----------------------------------------------------------------------------
(* Tree decoder.  A tree is a flat array of elements; element e is a leaf  *)
(* holding symbol e - TREE_NODE_LEAF when e >= TREE_NODE_LEAF, and         *)
(* otherwise the index of the first of its two children.  TLA+ tuples are  *)
(* 1-based: C's tree[i] is t[i + 1].                                       *)

\* n copies of v, as a tuple
Fill(n, v) == [i \in 1..n |-> v] \o <<>>

init_tree(tree_len) == Fill(tree_len, TREE_NODE_LEAF)

set_tree_single(tree, code) == [tree EXCEPT ![1] = code + TREE_NODE_LEAF]

\* One entry of the queue gets two children.  s = [tree, allocated, next].
expand_step(s) ==
    [s EXCEPT !.tree[s.next + 1] = s.allocated,
              !.allocated = s.allocated + 2,
              !.next = s.next + 1]

\* expand_queue: give every entry waiting in the queue two children, unless
\* the table has no room for them.  b = [tree, allocated, next, done].
expand_queue(b) ==
    LET new_nodes == (b.allocated - b.next) * 2
    IN  IF b.allocated + new_nodes > Len(b.tree) THEN b
        ELSE Run("expand", b, b.allocated - b.next)

\* Symbol s.i: when its length is code_len it takes the next entry of the
\* queue; a symbol for which no entry is left is ignored.
add_codes_step(s) ==
    IF s.code_lengths[s.i + 1] = s.code_len /\ s.b.next < s.b.allocated
    THEN [s EXCEPT !.b.tree[s.b.next + 1] = s.i + TREE_NODE_LEAF,
                   !.b.next = s.b.next + 1,
                   !.i = s.i + 1]
    ELSE [s EXCEPT !.i = s.i + 1]

add_codes_with_length(b, code_lengths, n, code_len) ==
    [b |-> Run("add_codes",
               [b |-> b, code_lengths |-> code_lengths, code_len |-> code_len,
                i |-> 0, done |-> FALSE], n).b,
     remaining |-> \E i \in 1..n : code_lengths[i] > code_len]

\* One pass of the do-while loop of build_tree.
build_step(s) ==
    With(add_codes_with_length(expand_queue(s.b), s.code_lengths, s.n,
                               s.code_len + 1),
         LAMBDA r : [s EXCEPT !.b = r.b, !.code_len = s.code_len + 1,
                              !.done = ~r.remaining])

\* The longest code a uint8_t length can ask for.
MAX_CODE_LEN == 255

\* build_tree: canonical Huffman tree of the first n lengths, built over the
\* table's previous contents.
build_tree(tree, code_lengths, n) ==
    Run("build",
        [b |-> [tree |-> tree, allocated |-> 1, next |-> 0, done |-> FALSE],
         code_lengths |-> code_lengths, n |-> n, code_len |-> 0,
         done |-> FALSE],
        MAX_CODE_LEN).b.tree

\* One step down the tree: a bit selects the child.  s = [dec, tree, code,
\* failed, done].
walk_step(s) ==
    With(read_bit(s.dec), LAMBDA r :
        IF r.ret < 0 THEN [s EXCEPT !.dec = r.dec, !.failed = TRUE,
                                    !.done = TRUE]
        ELSE With(s.tree[s.code + r.ret + 1], LAMBDA c :
                 [s EXCEPT !.dec = r.dec, !.code = c,
                           !.done = (c >= TREE_NODE_LEAF)]))

\* read_from_tree: walk from the root, one bit per internal node, until a
\* leaf is reached.
read_from_tree(d, tree) ==
    With(Run("walk",
             [dec |-> d, tree |-> tree, code |-> tree[1],
              failed |-> FALSE, done |-> (tree[1] >= TREE_NODE_LEAF)],
             BitsLeft(d) + 1),
         LAMBDA f :
             IF f.failed \/ ~f.done THEN [dec |-> Finish(f), ret |-> -1]
             ELSE [dec |-> f.dec, ret |-> f.code - TREE_NODE_LEAF])

-----------------------------------------------------------------------------
(* The decoder, lib/lh_new_decoder.c.                                      *)
(*                                                                         *)
(* decoder record: method, bit_stream_reader, ringbuf, ringbuf_pos,        *)
(* block_remaining, code_tree, offset_tree (and stuck, see Run).  The ring *)
(* buffer is kept as its first Len(cells) cells and the byte that memset   *)
(* wrote to all the others (fill).                                         *)

RingSize(d) == RING_BUFFER_SIZE(d.method)

\* decoder->ringbuf[i]
RingAt(d, i) ==
    IF i < Len(d.ringbuf.cells) THEN d.ringbuf.cells[i + 1]
    ELSE d.ringbuf.fill

\* decoder->ringbuf[i] = b
RingPut(rb, i, b) ==
    IF i < Len(rb.cells) THEN [rb EXCEPT !.cells[i + 1] = b]
    ELSE [rb EXCEPT !.cells =
             Append(rb.cells \o Fill(i - Len(rb.cells), rb.fill), b)]

\* init_ring_buffer that clears the ring buffer to zero bytes.
init_ring_buffer_zero(d) ==
    [d EXCEPT !.ringbuf = [fill |-> 0, cells |-> <<>>],
              !.ringbuf_pos = 0]

init_ring_buffer(d) ==
    [d EXCEPT !.ringbuf = [fill |-> 32, cells |-> <<>>],
              !.ringbuf_pos = 0]

lha_lh_new_init(method, data) ==
    init_ring_buffer(
        [method |-> method,
         bit_stream_reader |-> bit_stream_reader_init(data),
         ringbuf |-> [fill |-> 0, cells |-> <<>>],
         ringbuf_pos |-> 0,
         block_remaining |-> 0,
         code_tree |-> init_tree(NUM_CODES * 2),
         offset_tree |-> init_tree(MAX_TEMP_CODES * 2),
         stuck |-> FALSE])

\* The value of a cell of a local array that was never written.
UNINIT == -1

\* A local array of uint8_t, not yet written; an array is kept as its cells
\* up to the last one written.
NewArray == <<>>

\* a[i] = v for a uint8_t array: the value is truncated to 8 bits
ArraySet(a, i, v) ==
    IF i < Len(a) THEN [a EXCEPT ![i + 1] = v % 256]
    ELSE Append(a \o Fill(i - Len(a), UNINIT), v % 256)

\* a[from] = ... = a[to - 1] = 0, for from <= Len(a)
ArrayZero(a, from, to) ==
    IF to <= from THEN a
    ELSE SubSeq(a, 1, from) \o Fill(Min(to, Len(a)) - from, 0)
           \o Fill(to - Min(to, Len(a)), 0) \o SubSeq(a, to + 1, Len(a))

Fail(d) == [dec |-> d, ret |-> -1]

\* One pass of the for (;;) loop of read_length_value.  s = [dec, len,
\* failed, done].
length_step(s) ==
    With(read_bit(s.dec), LAMBDA r :
        IF r.ret < 0 THEN [s EXCEPT !.dec = r.dec, !.failed = TRUE,
                                    !.done = TRUE]
        ELSE IF r.ret = 0 THEN [s EXCEPT !.dec = r.dec, !.done = TRUE]
        ELSE [s EXCEPT !.dec = r.dec, !.len = s.len + 1])

read_length_value(d) ==
    With(read_bits(d, 3), LAMBDA r :
        IF r.ret < 0 THEN Fail(r.dec)
        ELSE IF r.ret = 7
        THEN With(Run("length",
                      [dec |-> r.dec, len |-> 7, failed |-> FALSE,
                       done |-> FALSE],
                      BitsLeft(r.dec) + 1),
                  LAMBDA f :
                      IF f.failed \/ ~f.done THEN Fail(Finish(f))
                      ELSE [dec |-> f.dec, ret |-> f.len])
        ELSE r)

\* The state of a loop that fills a length array: s = [dec, code_lengths,
\* n, i, failed, done].
LengthLoop(d, n) ==
    [dec |-> d, code_lengths |-> NewArray, n |-> n, i |-> 0, log |-> <<>>,
     failed |-> FALSE, done |-> (0 >= n)]

LoopFail(s, d) == [s EXCEPT !.dec = d, !.failed = TRUE, !.done = TRUE]

LoopAt(s, d, cl, i, ev) ==
    [s EXCEPT !.dec = d, !.code_lengths = cl, !.i = i, !.done = (i >= s.n),
              !.log = Append(@, ev)]

\* What a pass of a loop that fills a length array did: the index at it
\* stored at, the value val it read (a length, or a symbol of the temp
\* tree) and the bit pos the stream was at after it, the count skip that
\* followed (NONE when none was read) with the number of bits it took, and
\* the index next the loop went on at.  r and k are the results of the two
\* reads.
LoopEvent(at, r, k, next) ==
    [at |-> at, val |-> r.ret, pos |-> r.dec.bit_stream_reader.pos,
     skip |-> k.ret,
     skip_bits |-> k.dec.bit_stream_reader.pos - r.dec.bit_stream_reader.pos,
     next |-> next]

\* no count was read after the value
NoSkip(d) == [dec |-> d, ret |-> NONE]

\* One pass of that loop with the skip field after the length of index 3.
temp_table_step_skip_late(s) ==
    With(read_length_value(s.dec), LAMBDA r :
        IF r.ret < 0 THEN LoopFail(s, r.dec)
        ELSE With(ArraySet(s.code_lengths, s.i, r.ret), LAMBDA cl :
                 IF s.i = 3
                 THEN With(read_bits(r.dec, 2), LAMBDA k :
                          IF k.ret < 0 THEN LoopFail(s, k.dec)
                          ELSE LoopAt(s, k.dec, ArrayZero(cl, 4, 4 + k.ret),
                                      4 + k.ret,
                                      LoopEvent(s.i, r, k, 4 + k.ret)))
                 ELSE LoopAt(s, r.dec, cl, s.i + 1,
                             LoopEvent(s.i, r, NoSkip(r.dec), s.i + 1))))

\* One pass of the for loop of read_temp_table.
temp_table_step(s) ==
    With(read_length_value(s.dec), LAMBDA r :
        IF r.ret < 0 THEN LoopFail(s, r.dec)
        ELSE With(ArraySet(s.code_lengths, s.i, r.ret), LAMBDA cl :
                 IF s.i = 2
                 THEN With(read_bits(r.dec, 2), LAMBDA k :
                          IF k.ret < 0 THEN LoopFail(s, k.dec)
                          ELSE LoopAt(s, k.dec, ArrayZero(cl, 3, 3 + k.ret),
                                      3 + k.ret,
                                      LoopEvent(s.i, r, k, 3 + k.ret)))
                 ELSE LoopAt(s, r.dec, cl, s.i + 1,
                             LoopEvent(s.i, r, NoSkip(r.dec), s.i + 1))))

\* What a function that reads a table returns: the C return value ret, and
\* in tables (a list of none or one) what it read: the table's kind, the
\* bits from..to - 1 it took, the count declared and the count n used, the
\* single code (or NONE), the length array as it was left (its cells up to
\* the last one written), the passes of its loop, whether build_tree was
\* called, and offset_tree at the start and at the end.
TableRead(kind, d0, d1, declared, single, f, built) ==
    [kind |-> kind, from |-> d0.bit_stream_reader.pos,
     to |-> d1.bit_stream_reader.pos, declared |-> declared, n |-> f.n,
     single |-> single, code_lengths |-> f.code_lengths, log |-> f.log,
     built |-> built, offset_tree_in |-> d0.offset_tree,
     offset_tree_out |-> d1.offset_tree]

\* the count or the single code could not be read
NoTable(d) == [dec |-> d, ret |-> 0, tables |-> <<>>]

\* a table of one code was stored
SingleTable(kind, d0, d1, code) ==
    [dec |-> d1, ret |-> 1,
     tables |-> <<TableRead(kind, d0, d1, 0, code, LengthLoop(d1, 0),
                            FALSE)>>]

\* the loop of lengths ended in failure, in state f
FailedTable(kind, d0, d1, declared, f) ==
    [dec |-> d1, ret |-> 0,
     tables |-> <<TableRead(kind, d0, d1, declared, NONE, f, FALSE)>>]

\* the loop of lengths ended in state f and build_tree was called
BuiltTable(kind, d0, d1, declared, f) ==
    [dec |-> d1, ret |-> 1,
     tables |-> <<TableRead(kind, d0, d1, declared, NONE, f, TRUE)>>]

read_temp_table(d) ==
    With(read_bits(d, 5), LAMBDA r :
        IF r.ret < 0 THEN NoTable(r.dec)
        ELSE IF r.ret = 0
        THEN With(read_bits(r.dec, 5), LAMBDA c :
                 IF c.ret < 0 THEN NoTable(c.dec)
                 ELSE SingleTable("temp", d,
                                  [c.dec EXCEPT !.offset_tree =
                                      set_tree_single(@, c.ret)],
                                  c.ret))
        ELSE LET n == Min(r.ret, MAX_TEMP_CODES)
             IN  With(Run("temp_table", LengthLoop(r.dec, n), n), LAMBDA f :
                     IF f.failed \/ ~f.done
                     THEN FailedTable("temp", d, Finish(f), r.ret, f)
                     ELSE BuiltTable("temp", d,
                                     [f.dec EXCEPT !.offset_tree =
                                         build_tree(@, f.code_lengths, n)],
                                     r.ret, f)))

\* read_skip_count with a skip of nothing for skiprange 0
read_skip_count_none(d, skiprange) ==
    IF skiprange = 0 THEN [dec |-> d, ret |-> 0]
    ELSE IF skiprange = 1
    THEN With(read_bits(d, 4), LAMBDA r :
             IF r.ret < 0 THEN Fail(r.dec)
             ELSE [dec |-> r.dec, ret |-> r.ret + 3])
    ELSE With(read_bits(d, 9), LAMBDA r :
             IF r.ret < 0 THEN Fail(r.dec)
             ELSE [dec |-> r.dec, ret |-> r.ret + 20])

read_skip_count(d, skiprange) ==
    IF skiprange = 0 THEN [dec |-> d, ret |-> 1]
    ELSE IF skiprange = 1
    THEN With(read_bits(d, 4), LAMBDA r :
             IF r.ret < 0 THEN Fail(r.dec)
             ELSE [dec |-> r.dec, ret |-> r.ret + 3])
    ELSE With(read_bits(d, 9), LAMBDA r :
             IF r.ret < 0 THEN Fail(r.dec)
             ELSE [dec |-> r.dec, ret |-> r.ret + 20])

\* One pass of the while loop of read_code_table.
code_table_step(s) ==
    With(read_from_tree(s.dec, s.dec.offset_tree), LAMBDA r :
        IF r.ret < 0 THEN LoopFail(s, r.dec)
        ELSE IF r.ret <= 2
        THEN With(read_skip_count(r.dec, r.ret), LAMBDA k :
                 IF k.ret < 0 THEN LoopFail(s, k.dec)
                 ELSE LoopAt(s, k.dec,
                             ArrayZero(s.code_lengths, s.i,
                                       Min(s.i + k.ret, s.n)),
                             Min(s.i + k.ret, s.n),
                             LoopEvent(s.i, r, k, Min(s.i + k.ret, s.n))))
        ELSE LoopAt(s, r.dec, ArraySet(s.code_lengths, s.i, r.ret - 2),
                    s.i + 1, LoopEvent(s.i, r, NoSkip(r.dec), s.i + 1)))

\* read_code_table without the limit on the number of codes
read_code_table_unclamped(d) ==
    With(read_bits(d, 9), LAMBDA r :
        IF r.ret < 0 THEN NoTable(r.dec)
        ELSE IF r.ret = 0
        THEN With(read_bits(r.dec, 9), LAMBDA c :
                 IF c.ret < 0 THEN NoTable(c.dec)
                 ELSE SingleTable("code", d,
                                  [c.dec EXCEPT !.code_tree =
                                      set_tree_single(@, c.ret)],
                                  c.ret))
        ELSE LET n == r.ret
             IN  With(Run("code_table", LengthLoop(r.dec, n), n), LAMBDA f :
                     IF f.failed \/ ~f.done
                     THEN FailedTable("code", d, Finish(f), r.ret, f)
                     ELSE BuiltTable("code", d,
                                     [f.dec EXCEPT !.code_tree =
                                         build_tree(@, f.code_lengths, n)],
                                     r.ret, f)))

read_code_table(d) ==
    With(read_bits(d, 9), LAMBDA r :
        IF r.ret < 0 THEN NoTable(r.dec)
        ELSE IF r.ret = 0
        THEN With(read_bits(r.dec, 9), LAMBDA c :
                 IF c.ret < 0 THEN NoTable(c.dec)
                 ELSE SingleTable("code", d,
                                  [c.dec EXCEPT !.code_tree =
                                      set_tree_single(@, c.ret)],
                                  c.ret))
        ELSE LET n == Min(r.ret, NUM_CODES)
             IN  With(Run("code_table", LengthLoop(r.dec, n), n), LAMBDA f :
                     IF f.failed \/ ~f.done
                     THEN FailedTable("code", d, Finish(f), r.ret, f)
                     ELSE BuiltTable("code", d,
                                     [f.dec EXCEPT !.code_tree =
                                         build_tree(@, f.code_lengths, n)],
                                     r.ret, f)))

\* One pass of the for loop of read_offset_table.
offset_table_step(s) ==
    With(read_length_value(s.dec), LAMBDA r :
        IF r.ret < 0 THEN LoopFail(s, r.dec)
        ELSE LoopAt(s, r.dec, ArraySet(s.code_lengths, s.i, r.ret), s.i + 1,
                    LoopEvent(s.i, r, NoSkip(r.dec), s.i + 1)))

read_offset_table(d) ==
    With(read_bits(d, OFFSET_BITS(d.method)), LAMBDA r :
        IF r.ret < 0 THEN NoTable(r.dec)
        ELSE IF r.ret = 0
        THEN With(read_bits(r.dec, OFFSET_BITS(d.method)), LAMBDA c :
                 IF c.ret < 0 THEN NoTable(c.dec)
                 ELSE SingleTable("offset", d,
                                  [c.dec EXCEPT !.offset_tree =
                                      set_tree_single(@, c.ret)],
                                  c.ret))
        ELSE LET n == Min(r.ret, HISTORY_BITS(d.method))
             IN  With(Run("offset_table", LengthLoop(r.dec, n), n), LAMBDA f :
                     IF f.failed \/ ~f.done
                     THEN FailedTable("offset", d, Finish(f), r.ret, f)
                     ELSE BuiltTable("offset", d,
                                     [f.dec EXCEPT !.offset_tree =
                                         build_tree(@, f.code_lengths, n)],
                                     r.ret, f)))

\* The tables of a block, read after its length.
read_block_tables(d1, len) ==
    With(read_temp_table(d1), LAMBDA t :
        IF t.ret = 0
        THEN [dec |-> t.dec, ret |-> 0, len |-> len, tables |-> t.tables]
        ELSE With(read_code_table(t.dec), LAMBDA c :
                 IF c.ret = 0
                 THEN [dec |-> c.dec, ret |-> 0, len |-> len,
                       tables |-> t.tables \o c.tables]
                 ELSE With(read_offset_table(c.dec), LAMBDA o :
                          [dec |-> o.dec, ret |-> o.ret, len |-> len,
                           tables |-> t.tables \o c.tables \o o.tables])))

\* start_new_block that counts one command too many.
start_new_block_one_more(d) ==
    With(read_bits(d, 16), LAMBDA l :
        IF l.ret < 0
        THEN [dec |-> l.dec, ret |-> 0, len |-> NONE, tables |-> <<>>]
        ELSE read_block_tables([l.dec EXCEPT !.block_remaining = l.ret + 1],
                               l.ret))

\* start_new_block; len is the block length read, NONE when it was not.
\* start_new_block that also starts the ring buffer again
start_new_block_new_ring(d) ==
    With(read_bits(d, 16), LAMBDA l :
        IF l.ret < 0
        THEN [dec |-> l.dec, ret |-> 0, len |-> NONE, tables |-> <<>>]
        ELSE read_block_tables([l.dec EXCEPT !.block_remaining = l.ret,
                                             !.ringbuf_pos = 0],
                               l.ret))

start_new_block(d) ==
    With(read_bits(d, 16), LAMBDA l :
        IF l.ret < 0
        THEN [dec |-> l.dec, ret |-> 0, len |-> NONE, tables |-> <<>>]
        ELSE read_block_tables([l.dec EXCEPT !.block_remaining = l.ret],
                               l.ret))

read_code(d) == read_from_tree(d, d.code_tree)

read_offset_code(d) ==
    With(read_from_tree(d, d.offset_tree), LAMBDA b :
        IF b.ret < 0 THEN Fail(b.dec)
        ELSE IF b.ret = 0 THEN [dec |-> b.dec, ret |-> 0]
        ELSE IF b.ret = 1 THEN [dec |-> b.dec, ret |-> 1]
        ELSE With(read_bits(b.dec, b.ret - 1), LAMBDA r :
                 IF r.ret < 0 THEN Fail(r.dec)
                 ELSE [dec |-> r.dec, ret |-> r.ret + 2 ^ (b.ret - 1)]))

\* output_byte that lets ringbuf_pos run past the end of the ring buffer.
output_byte_no_wrap(s, b) ==
    [s EXCEPT
        !.buf = Append(@, [at |-> s.buf_len, byte |-> b]),
        !.buf_len = s.buf_len + 1,
        !.dec.ringbuf = RingPut(@, s.dec.ringbuf_pos, b),
        !.dec.ringbuf_pos = s.dec.ringbuf_pos + 1]

\* output_byte that leaves the ring buffer cell unwritten.
output_byte_no_ring(s, b) ==
    [s EXCEPT
        !.buf = Append(@, [at |-> s.buf_len, byte |-> b]),
        !.buf_len = s.buf_len + 1,
        !.dec.ringbuf_pos = (s.dec.ringbuf_pos + 1) % RingSize(s.dec)]

\* output_byte that does not advance *buf_len.
output_byte_no_advance(s, b) ==
    [s EXCEPT
        !.buf = Append(@, [at |-> s.buf_len, byte |-> b]),
        !.dec.ringbuf = RingPut(@, s.dec.ringbuf_pos, b),
        !.dec.ringbuf_pos = (s.dec.ringbuf_pos + 1) % RingSize(s.dec)]

\* output_byte on s = [dec, buf, buf_len, ...]: buf is the list of the
\* writes made to the caller's buffer (index at, value byte), buf_len is
\* *buf_len.
output_byte(s, b) ==
    [s EXCEPT
        !.buf = Append(@, [at |-> s.buf_len, byte |-> b]),
        !.buf_len = s.buf_len + 1,
        !.dec.ringbuf = RingPut(@, s.dec.ringbuf_pos, b),
        !.dec.ringbuf_pos = (s.dec.ringbuf_pos + 1) % RingSize(s.dec)]

\* One pass of the for loop of copy_from_history.  s = [dec, buf, buf_len,
\* start, i, srcs, done]; srcs lists the ring buffer indices read.
copy_step(s) ==
    LET from == U32Rem(U32Add(s.start, s.i), RingSize(s.dec))
    IN  [output_byte(s, RingAt(s.dec, from))
            EXCEPT !.i = s.i + 1, !.srcs = Append(s.srcs, from)]

\* copy_from_history that goes on to copy after an offset that could not be
\* read.
copy_from_history_unchecked(s, count) ==
    With(read_offset_code(s.dec), LAMBDA o :
        LET start == U32(o.dec.ringbuf_pos + RingSize(o.dec) - o.ret - 1)
        IN  With(Run("copy",
                     [dec |-> o.dec, buf |-> s.buf,
                      buf_len |-> s.buf_len, start |-> start, i |-> 0,
                      srcs |-> <<>>, done |-> FALSE],
                     count),
                 LAMBDA c :
                     [dec |-> c.dec, buf |-> c.buf,
                      buf_len |-> c.buf_len, offset |-> o.ret,
                      srcs |-> c.srcs]))

\* copy_from_history on s = [dec, buf, buf_len]; offset is the offset read,
\* -1 when reading it failed.
copy_from_history(s, count) ==
    With(read_offset_code(s.dec), LAMBDA o :
        IF o.ret < 0
        THEN [dec |-> o.dec, buf |-> s.buf, buf_len |-> s.buf_len,
              offset |-> -1, srcs |-> <<>>]
        ELSE LET start == U32(o.dec.ringbuf_pos + RingSize(o.dec) - o.ret - 1)
             IN  With(Run("copy",
                          [dec |-> o.dec, buf |-> s.buf,
                           buf_len |-> s.buf_len, start |-> start, i |-> 0,
                           srcs |-> <<>>, done |-> FALSE],
                          count),
                      LAMBDA c :
                          [dec |-> c.dec, buf |-> c.buf,
                           buf_len |-> c.buf_len, offset |-> o.ret,
                           srcs |-> c.srcs]))

\* a copy length that leaves out the threshold
copy_count_no_threshold(code) == code - 256

\* The number of bytes of the copy command with the given code, as
\* lha_lh_new_read passes it to copy_from_history.
copy_count(code) == code - 256 + COPY_THRESHOLD

\* The record of a block header read from decoder state d on: the declared
\* length, whether the header was read completely, the bit it started at,
\* the tables read, and whether the ring buffer and its position are after
\* the header what they were before it.
HeaderRead(d, r) ==
    [len |-> r.len, ok |-> r.ret # 0, from |-> d.bit_stream_reader.pos,
     tables |-> r.tables,
     ring_same |-> (r.dec.ringbuf = d.ringbuf
                    /\ r.dec.ringbuf_pos = d.ringbuf_pos)]

\* The loop at the head of lha_lh_new_read going on after a block header
\* that could not be read.
new_block_step_no_return(s) ==
    With(start_new_block(s.dec), LAMBDA r :
        [s EXCEPT !.dec = r.dec,
                  !.hdrs = Append(s.hdrs, HeaderRead(s.dec, r)),
                  !.done = (r.dec.block_remaining # 0)])

\* A pass after which the loop ends whatever the block's length: an if in
\* place of the while.
new_block_step_once(s) ==
    With(start_new_block(s.dec), LAMBDA r :
        [s EXCEPT !.dec = r.dec,
                  !.hdrs = Append(s.hdrs, HeaderRead(s.dec, r)),
                  !.failed = (r.ret = 0),
                  !.done = TRUE])

\* One pass of the while loop at the head of lha_lh_new_read.  s = [dec,
\* hdrs, failed, done]; hdrs lists the block headers read: the declared
\* length and whether the header was read completely.
new_block_step(s) ==
    With(start_new_block(s.dec), LAMBDA r :
        LET h == Append(s.hdrs, HeaderRead(s.dec, r))
        IN  IF r.ret = 0
            THEN [s EXCEPT !.dec = r.dec, !.hdrs = h, !.failed = TRUE,
                           !.done = TRUE]
            ELSE [s EXCEPT !.dec = r.dec, !.hdrs = h,
                           !.done = (r.dec.block_remaining # 0)])

\* lha_lh_new_read.  ret is the value returned and buf what was written to
\* the caller's buffer; hdrs, code and offset record what the call read
\* (code: NONE when no command was read, -1 when reading it failed; srcs:
\* the ring buffer indices a copy read, in order).
lha_lh_new_read(d) ==
    With(Run("new_block",
             [dec |-> d, hdrs |-> <<>>, failed |-> FALSE,
              done |-> (d.block_remaining # 0)],
             (BitsLeft(d) \div 16) + 1),
         LAMBDA b :
    IF b.failed \/ ~b.done
    THEN [dec |-> Finish(b), ret |-> 0, buf |-> <<>>, hdrs |-> b.hdrs,
          code |-> NONE, offset |-> NONE, srcs |-> <<>>]
    ELSE With(read_code([b.dec EXCEPT !.block_remaining = @ - 1]), LAMBDA c :
             IF c.ret < 0
             THEN [dec |-> c.dec, ret |-> 0, buf |-> <<>>,
                   hdrs |-> b.hdrs, code |-> -1, offset |-> NONE,
                   srcs |-> <<>>]
             ELSE IF c.ret < 256
             THEN With(output_byte([dec |-> c.dec, buf |-> <<>>,
                                    buf_len |-> 0], c.ret % 256),
                       LAMBDA o :
                           [dec |-> o.dec, ret |-> o.buf_len, buf |-> o.buf,
                            hdrs |-> b.hdrs, code |-> c.ret,
                            offset |-> NONE, srcs |-> <<>>])
             ELSE With(copy_from_history([dec |-> c.dec, buf |-> <<>>,
                                          buf_len |-> 0],
                                         copy_count(c.ret)),
                       LAMBDA h :
                           [dec |-> h.dec, ret |-> h.buf_len, buf |-> h.buf,
                            hdrs |-> b.hdrs, code |-> c.ret,
                            offset |-> h.offset, srcs |-> h.srcs])))

-----------------------------------------------------------------------------
(* CRC-16 of the decoded bytes, as kept by an LHADecoder.                  *)

\* the polynomial of CRC-16, bits reversed
CRC16_POLY == 40961

RECURSIVE Xor(_, _)
Xor(a, b) ==
    IF a = 0 THEN b
    ELSE IF b = 0 THEN a
    ELSE ((a + b) % 2) + 2 * Xor(a \div 2, b \div 2)

crc16_bit(crc) ==
    IF crc % 2 = 1 THEN Xor(crc \div 2, CRC16_POLY) ELSE crc \div 2

\* the CRC of each single byte: lookup table, entry b at b + 1
crc16_table ==
    [b \in 1..256 |->
        crc16_bit(crc16_bit(crc16_bit(crc16_bit(
        crc16_bit(crc16_bit(crc16_bit(crc16_bit(b - 1))))))))] \o <<>>

\* One byte of lha_crc16_buf.  s = [crc, bytes, i, done].
crc16_step(s) ==
    [s EXCEPT
        !.crc = Xor(s.crc \div 256,
                    crc16_table[Xor(s.crc % 256, s.bytes[s.i + 1]) + 1]),
        !.i = s.i + 1,
        !.done = (s.i + 1 >= Len(s.bytes))]

\* the running CRC after the bytes of a buffer
lha_crc16_buf(crc, bytes) ==
    Run("crc16", [crc |-> crc, bytes |-> bytes, i |-> 0,
                  done |-> (bytes = <<>>)], Len(bytes)).crc

-----------------------------------------------------------------------------
\* One iteration of the loop of the given kind.
Step(kind, s) ==
    CASE kind = "expand"       -> expand_step(s)
      [] kind = "add_codes"    -> add_codes_step(s)
      [] kind = "build"        -> build_step(s)
      [] kind = "walk"         -> walk_step(s)
      [] kind = "length"       -> length_step(s)
      [] kind = "temp_table"   -> temp_table_step(s)
      [] kind = "code_table"   -> code_table_step(s)
      [] kind = "offset_table" -> offset_table_step(s)
      [] kind = "copy"         -> copy_step(s)
      [] kind = "new_block"    -> new_block_step(s)
      [] kind = "crc16"        -> crc16_step(s)

Run(kind, s, k) ==
    IF s.done \/ k <= 0 THEN s
    ELSE IF k = 1 THEN Step(kind, s)
    ELSE Run(kind, Run(kind, s, k \div 2), k - (k \div 2))

-----------------------------------------------------------------------------
(* Input streams.  A stream is a sequence of blocks, each given by its     *)
(* fields <<width, value>> in wire order, packed most significant bit      *)
(* first and cut at any byte boundary.                                     *)

\* The largest block length declared by the generated blocks.
MaxBlockLen == 2

\* The largest number of arbitrary bytes that follow a block length.
MaxRawLen == 2

FieldBits(f) == [i \in 1..f[1] |-> (f[2] \div (2 ^ (f[1] - i))) % 2]

\* the bits of the fields fs[from..to], by halves
RECURSIVE FieldsBitsOf(_, _, _)
FieldsBitsOf(fs, from, to) ==
    IF to < from THEN <<>>
    ELSE IF to = from THEN FieldBits(fs[from])
    ELSE FieldsBitsOf(fs, from, (from + to) \div 2)
           \o FieldsBitsOf(fs, ((from + to) \div 2) + 1, to)

FieldsBits(fs) == FieldsBitsOf(fs, 1, Len(fs))

\* eight bits starting at bit k (1-based), zero past the end
ByteAt(bits, k) ==
    LET B(j) == IF k + j <= Len(bits) THEN bits[k + j] ELSE 0
    IN  128 * B(0) + 64 * B(1) + 32 * B(2) + 16 * B(3)
          + 8 * B(4) + 4 * B(5) + 2 * B(6) + B(7)

Pack(bits) ==
    [k \in 1..((Len(bits) + 7) \div 8) |-> ByteAt(bits, 8 * k - 7)] \o <<>>

RECURSIVE Repeat(_, _)
Repeat(fs, n) ==
    IF n = 0 THEN <<>>
    ELSE IF n = 1 THEN fs
    ELSE Repeat(fs, n \div 2) \o Repeat(fs, n - (n \div 2))

\* A block whose three tables are single codes: temp code 0, command code c
\* and offset code oc; each of its len commands is followed by the raw bits
\* x of its offset when it is a copy and oc asks for raw bits.
SingleCodeBlock(m, len, c, oc, x) ==
    <<<<16, len>>, <<5, 0>>, <<5, 0>>, <<9, 0>>, <<9, c>>,
      <<OFFSET_BITS(m), 0>>, <<OFFSET_BITS(m), oc>>>>
    \o (IF c >= 256 /\ oc >= 2 THEN Repeat(<<<<oc - 1, x>>>>, len) ELSE <<>>)

\* The header of a block with Huffman tables.
\*   temp table, 5 lengths 1,0,2,(skip 1: 0),2: temp symbol 0 is coded 0,
\*     2 is coded 10 and 4 is coded 11;
\*   code table, 259 lengths: symbols 65, 66, 257 and 258 have length 2
\*     (coded 00, 01, 10, 11), written as a run of 65 zeros, two lengths,
\*     a run of 190 zeros and two lengths;
\*   offset table, 3 lengths 1,2,2: 0 bits is coded 0, 1 bit 10, 2 bits 11.
TreeHeader(m, len) ==
    <<<<16, len>>,
      <<5, 5>>, <<3, 1>>, <<3, 0>>, <<3, 2>>, <<2, 1>>, <<3, 2>>,
      <<9, 259>>, <<2, 2>>, <<9, 45>>, <<2, 3>>, <<2, 3>>,
                  <<2, 2>>, <<9, 170>>, <<2, 3>>, <<2, 3>>,
      <<OFFSET_BITS(m), 3>>, <<3, 1>>, <<3, 2>>, <<3, 2>>>>

\* The commands of a block with those tables, by index k: the literal 65,
\* the literal 66, a copy of 4 bytes from offset 1 and a copy of 5 bytes
\* from offset 3, and then the same again.
TreeCommand(k) ==
    CASE k % 4 = 1 -> <<<<2, 0>>>>
      [] k % 4 = 2 -> <<<<2, 1>>>>
      [] k % 4 = 3 -> <<<<2, 2>>, <<2, 2>>>>
      [] k % 4 = 0 -> <<<<2, 3>>, <<2, 3>>, <<1, 1>>>>

RECURSIVE TreeCommands(_)
TreeCommands(len) ==
    IF len = 0 THEN <<>> ELSE TreeCommands(len - 1) \o TreeCommand(len)

TreeBlock(m, len) == TreeHeader(m, len) \o TreeCommands(len)

\* command codes of the single-code blocks: a literal, a copy of 5 bytes
\* and the largest 9-bit code
CodeChoices == {65, 258, 511}

\* offset codes of the single-code blocks: offset 0, 2 raw bits, and the
\* codes 15, 17 and 31 whose offsets are past every ring buffer of the
\* methods that can write them; a method writes the codes that fit its
\* OFFSET_BITS
OffsetCodeChoices(m) == {oc \in {0, 3, 15, 17, 31} : oc < 2 ^ OFFSET_BITS(m)}

\* the first block of a stream: literals, or no command at all
FirstBlocks(m) == {SingleCodeBlock(m, len, 66, 0, 0) : len \in 0..MaxBlockLen}

LastBlocks(m) ==
    {SingleCodeBlock(m, len, c, oc, 1) :
        len \in 0..MaxBlockLen, c \in CodeChoices, oc \in OffsetCodeChoices(m)}
    \cup {TreeBlock(m, len) : len \in 0..(MaxBlockLen + 2)}

\* a block of enough copies of 258 bytes to go round the smallest ring
\* buffer, after one literal
LongStream(m) ==
    SingleCodeBlock(m, 1, 66, 0, 0)
    \o SingleCodeBlock(m, (RING_BUFFER_SIZE("lh4") \div 258) + 2, 511, 1, 0)

\* The header of a block whose three tables declare more codes than their
\* arrays hold: 31 temp lengths, 511 code lengths and the largest count
\* the offset table's field can hold.  The lengths are those of TreeHeader,
\* followed by zeros up to the capacity: 15 more temp lengths, a run of
\* 531 zeros from index 259 of the code table, and zero offset lengths.
ClampHeader(m, len) ==
    <<<<16, len>>,
      <<5, 31>>, <<3, 1>>, <<3, 0>>, <<3, 2>>, <<2, 1>>, <<3, 2>>>>
    \o Repeat(<<<<3, 0>>>>, MAX_TEMP_CODES - 5)
    \o <<<<9, 511>>, <<2, 2>>, <<9, 45>>, <<2, 3>>, <<2, 3>>,
                     <<2, 2>>, <<9, 170>>, <<2, 3>>, <<2, 3>>,
                     <<2, 2>>, <<9, 511>>,
          <<OFFSET_BITS(m), 2 ^ OFFSET_BITS(m) - 1>>,
          <<3, 1>>, <<3, 2>>, <<3, 2>>>>
    \o Repeat(<<<<3, 0>>>>, HISTORY_BITS(m) - 3)

\* The header of a block of one command whose temp table declares n
\* lengths, the first three of them 1, 1 and 0, with the skip field s after
\* the third and zeros after that; its code table is 4 zero lengths and
\* its offset table is the single code 0.  With two temp lengths or more
\* the code table is written as the temp symbol 0 and the temp symbol 1
\* with a run of 18; the tree of one temp length of 1 gives the symbol 0
\* for either bit, and the code table is four times the symbol 0.
SkipBlock(m, n, s) ==
    <<<<16, 1>>, <<5, n>>>>
    \o SubSeq(<<<<3, 1>>, <<3, 1>>, <<3, 0>>>>, 1, Min(n, 3))
    \o (IF n >= 3 THEN <<<<2, s>>>> ELSE <<>>)
    \o (IF n > 3 + s THEN Repeat(<<<<3, 0>>>>, n - 3 - s) ELSE <<>>)
    \o <<<<9, 4>>>>
    \o (IF n >= 2 THEN <<<<1, 0>>, <<1, 1>>, <<4, 15>>>>
        ELSE <<<<1, 0>>, <<1, 1>>, <<1, 1>>, <<1, 1>>>>)
    \o <<<<OFFSET_BITS(m), 0>>, <<OFFSET_BITS(m), 0>>>>

\* A block of one command whose temp table is the single code c, whose
\* code table declares n lengths followed by the fields ks, and whose
\* offset table is the single code 0.
SingleTempBlock(m, c, n, ks) ==
    <<<<16, 1>>, <<5, 0>>, <<5, c>>, <<9, n>>>> \o ks
    \o <<<<OFFSET_BITS(m), 0>>, <<OFFSET_BITS(m), 0>>>>

\* The number of 1 bits after the 3-bit value 7 that make a length of 256.
LongOnes == 249

\* A block of one literal whose temp table is one length of 257 and whose
\* offset table is one length of 256, each written as the value 7 and a
\* unary extension.
LongLengthBlock(m) ==
    <<<<16, 1>>, <<5, 1>>, <<3, 7>>>> \o Repeat(<<<<1, 1>>>>, LongOnes + 1)
    \o <<<<1, 0>>, <<9, 0>>, <<9, 66>>, <<OFFSET_BITS(m), 1>>, <<3, 7>>>>
    \o Repeat(<<<<1, 1>>>>, LongOnes) \o <<<<1, 0>>>>

\* Blocks that exercise the three tables of a header: counts above the
\* capacities; temp tables of 1 to 8 lengths with skips of 0 to 3; with a
\* single-code temp tree, 511 declared lengths of single zeros that take
\* no bits, runs of 3 + k and of 20 + k zeros that end at the count or are
\* cut by it, and lengths 3 and 29 that take no bits; lengths of 256 and
\* more.
TableBlocks(m) ==
    {ClampHeader(m, len) \o TreeCommands(len) : len \in 0..(MaxBlockLen + 2)}
    \cup {SkipBlock(m, c[1], c[2]) :
              c \in {<<1, 0>>, <<2, 0>>, <<3, 0>>, <<3, 3>>, <<4, 0>>,
                     <<5, 1>>, <<7, 3>>, <<8, 2>>}}
    \cup {SingleTempBlock(m, 0, 511, <<>>),
          SingleTempBlock(m, 0, 1, <<>>),
          SingleTempBlock(m, 1, 4, <<<<4, 15>>>>),
          SingleTempBlock(m, 1, 7, <<<<4, 0>>, <<4, 1>>>>),
          SingleTempBlock(m, 2, 30, <<<<9, 0>>, <<9, 0>>>>),
          SingleTempBlock(m, 2, 510, <<<<9, 490>>>>),
          SingleTempBlock(m, 5, 2, <<>>),
          SingleTempBlock(m, 31, 1, <<>>)}
    \cup {LongLengthBlock(m)}

RawBytes == {0, 127, 255}

RECURSIVE RawSeqs(_)
RawSeqs(n) ==
    IF n = 0 THEN {<<>>}
    ELSE {<<>>} \cup {<<b>> \o t : b \in RawBytes, t \in RawSeqs(n - 1)}

\* a block length followed by arbitrary bytes
RawStreams == {<<0, len>> \o t : len \in 0..MaxBlockLen, t \in RawSeqs(MaxRawLen)}

Streams(m) ==
    {Pack(FieldsBits(fs)) :
        fs \in LastBlocks(m) \cup TableBlocks(m)
               \cup {a \o b : a \in FirstBlocks(m), b \in LastBlocks(m)}
               \cup (IF m = "lh4" THEN {LongStream(m)} ELSE {})}
    \cup RawStreams

\* every stream cut at every byte boundary
Inputs(m) ==
    UNION {{SubSeq(s, 1, k) : k \in 0..Len(s)} : s \in Streams(m)}

-----------------------------------------------------------------------------
(* One decoder instance and the calls made on it.                          *)

\* The outcomes of a call of read_bits for more bits than its contract
\* allows, in a method whose offset field can hold a code that asks for
\* them.
WideOutcomes(m) ==
    IF 2 ^ OFFSET_BITS(m) - 2 > MAX_READ_BITS THEN BOOLEAN ELSE {TRUE}

\* a decoder whose bit stream reader treats such calls as w says
NewDecoderOn(m, data, w) ==
    [lha_lh_new_init(m, data) EXCEPT !.bit_stream_reader.wide_ok = w]

NoTrace == [hdrs |-> <<>>, code |-> NONE, offset |-> NONE, srcs |-> <<>>]

\* no reader is part of the runs of a decoder on its own
ReaderUnused ==
    /\ reader = <<>>
    /\ objects = <<>>
    /\ basic = <<>>
    /\ dirs = {}
    /\ last = <<>>
    /\ history = <<>>

\* the bytes written to the caller's buffer, in the order written
BufBytes(b) == [i \in 1..Len(b) |-> b[i].byte] \o <<>>

Init ==
    /\ \E m \in Methods : \E data \in Inputs(m) : \E w \in WideOutcomes(m) :
           decoder = NewDecoderOn(m, data, w)
    /\ result = -1
    /\ buf = <<>>
    /\ trace = NoTrace
    /\ total = <<>>
    /\ zero_seen = FALSE
    /\ decoder2 = <<>>
    /\ sources = <<>>
    /\ results1 = <<>>
    /\ results2 = <<>>
    /\ ReaderUnused
    /\ ahead = <<>>

\* The caller calls read on the decoder.
Read ==
    /\ \E r \in {lha_lh_new_read(decoder)} :
           /\ decoder' = r.dec
           /\ result' = r.ret
           /\ buf' = r.buf
           /\ trace' = [hdrs |-> r.hdrs, code |-> r.code, offset |-> r.offset,
                        srcs |-> r.srcs]
           /\ total' = total \o BufBytes(r.buf)
           /\ zero_seen' = (zero_seen \/ r.ret = 0)
    /\ UNCHANGED <<decoder2, sources, results1, results2, reader, objects, basic,
                   dirs, last, history, ahead>>

Next == Read

Spec == Init /\ [][Next]_vars

\* The same calls, made by a caller that goes on calling read.  Each state
\* holds in ahead the outcome of the call to come, so that whether a call
\* changes the state is read off the state.
InitLive ==
    /\ \E m \in Methods : \E data \in Inputs(m) : \E w \in WideOutcomes(m) :
           decoder = NewDecoderOn(m, data, w)
    /\ result = -1
    /\ buf = <<>>
    /\ trace = NoTrace
    /\ total = <<>>
    /\ zero_seen = FALSE
    /\ decoder2 = <<>>
    /\ sources = <<>>
    /\ results1 = <<>>
    /\ results2 = <<>>
    /\ ReaderUnused
    /\ ahead = lha_lh_new_read(decoder)

\* the variables a call to read sets
called == <<decoder, result, buf, trace, total, zero_seen>>

Return ==
    /\ decoder' = ahead.dec
    /\ result' = ahead.ret
    /\ buf' = ahead.buf
    /\ trace' = [hdrs |-> ahead.hdrs, code |-> ahead.code,
                 offset |-> ahead.offset, srcs |-> ahead.srcs]
    /\ total' = total \o BufBytes(ahead.buf)
    /\ zero_seen' = (zero_seen \/ ahead.ret = 0)

ReadLive ==
    /\ Return
    /\ ahead' = lha_lh_new_read(decoder')
    /\ UNCHANGED <<decoder2, sources, results1, results2, reader, objects, basic,
                   dirs, last, history>>

NextLive == ReadLive

SpecLive == InitLive /\ [][NextLive]_vars /\ WF_called(Return)

-----------------------------------------------------------------------------
(* Properties of one decoder instance.                                     *)

\* the ring buffer size of the instance
RBS == RING_BUFFER_SIZE(decoder.method)

\* the number of bytes the command with code c stands for
CommandBytes(c) == IF c < 256 THEN 1 ELSE c - 256 + 3

\* C1: a call to read either emits every byte of the command it decoded, to
\* the caller's buffer and to the ring buffer, or returns 0 and leaves the
\* caller's buffer, the ring buffer and ringbuf_pos as they were.
C1_NoPartialCommand ==
    [][ \/ /\ result' = 0
           /\ buf' = <<>>
           /\ decoder'.ringbuf = decoder.ringbuf
           /\ decoder'.ringbuf_pos = decoder.ringbuf_pos
        \/ /\ trace'.code >= 0
           /\ result' = CommandBytes(trace'.code)
           /\ Len(buf') = result'
           /\ \A k \in 1..Len(buf') :
                  RingAt(decoder', (decoder.ringbuf_pos + k - 1) % RBS)
                      = buf'[k].byte
           /\ decoder'.ringbuf_pos = (decoder.ringbuf_pos + result') % RBS
      ]_vars

\* A copy command was decoded, its offset could not be read and the call
\* returned 0.
C1_Witness == result = 0 /\ trace.code >= 256 /\ trace.offset = -1

\* C2: a call to read that decodes a symbol c below 256 emits the byte c and
\* returns 1, a call that decodes c >= 256 and reads its offset emits and
\* returns c - 256 + 3 bytes, and either call uses up exactly one command
\* of the block.
C2_OneCommandPerRead ==
    [][ trace'.code >= 0 /\ (trace'.code >= 256 => trace'.offset >= 0)
        => /\ trace'.code < 256
                => result' = 1 /\ BufBytes(buf') = <<trace'.code>>
           /\ trace'.code >= 256
                => result' = trace'.code - 256 + 3 /\ Len(buf') = result'
           /\ decoder'.block_remaining =
                  (IF decoder.block_remaining > 0
                   THEN decoder.block_remaining
                   ELSE trace'.hdrs[Len(trace'.hdrs)].len) - 1
      ]_vars

\* A copy of the five bytes of code 258 was emitted.
C2_Witness == trace.code = 258 /\ trace.offset >= 0 /\ result = 5

\* C3: one call to read writes the cells 0 .. result-1 of the caller's
\* buffer, in that order, and result is at most RING_BUFFER_SIZE, the
\* advertised OUTPUT_BUFFER_SIZE.
C3_WritesWithinBuffer ==
    /\ result >= 0 => Len(buf) = result
    /\ \A k \in 1..Len(buf) : buf[k].at = k - 1
    /\ \A k \in 1..Len(buf) : buf[k].at < OUTPUT_BUFFER_SIZE(decoder.method)
    /\ result <= RBS

\* A call wrote more than one byte, in a method with the smallest buffer.
C3_Witness == decoder.method = "lh4" /\ result > 256 /\ Len(buf) = result

\* C4: every call to read terminates (no loop of the decoder runs past the
\* bound that its input allows), and the calls that a caller keeps making
\* on a finite input reach one that returns 0.
C4_ReadsReachZero == [](~decoder.stuck) /\ <>(result = 0)

\* A call read a block header that declares 0 commands, went on to the
\* next header and found the end of the input.
C4_Witness ==
    /\ result = 0
    /\ Len(trace.hdrs) >= 2
    /\ trace.hdrs[1].len = 0 /\ trace.hdrs[1].ok

\* C5: byte i of a copy with offset o < RING_BUFFER_SIZE is the byte o+1
\* positions earlier in everything the decoder has emitted, bytes of the
\* same copy included, and 0x20 when that position is before the start.
C5_CopyFromOutput ==
    trace.code >= 256 /\ trace.offset >= 0 /\ trace.offset < RBS
    => \A i \in 0..(result - 1) :
           LET p == Len(total) - result + i
               q == p - trace.offset - 1
           IN  total[p + 1] = (IF q >= 0 THEN total[q + 1] ELSE 32)

\* A copy was made after the ring buffer had been filled once.
C5_Witness ==
    /\ trace.code >= 256 /\ trace.offset >= 0 /\ result > 0
    /\ Len(total) - result > RBS

\* C6: a call that starts with block_remaining > 0 reads no block header,
\* keeps the block's trees and uses up one command; a call that starts
\* with block_remaining = 0 begins by reading a block header; and after a
\* header declaring L >= 1 commands was read completely, the command of
\* that call leaves L - 1 commands.
C6_BlockAccounting ==
    [][ /\ decoder.block_remaining > 0
            => /\ trace'.hdrs = <<>>
               /\ decoder'.block_remaining = decoder.block_remaining - 1
               /\ decoder'.code_tree = decoder.code_tree
               /\ decoder'.offset_tree = decoder.offset_tree
        /\ decoder.block_remaining = 0 => Len(trace'.hdrs) >= 1
        /\ \A k \in 1..Len(trace'.hdrs) :
               /\ trace'.hdrs[k].ok /\ trace'.hdrs[k].len >= 1
                      => /\ k = Len(trace'.hdrs)
                         /\ decoder'.block_remaining = trace'.hdrs[k].len - 1
               /\ k < Len(trace'.hdrs)
                      => trace'.hdrs[k].ok /\ trace'.hdrs[k].len = 0
      ]_vars

\* The last command of a block was decoded by a call that read no header.
C6_Witness ==
    /\ trace.hdrs = <<>> /\ trace.code >= 0 /\ result > 0
    /\ decoder.block_remaining = 0

\* C8: one call to read emits at most 254 + COPY_THRESHOLD = 257 bytes.
C8_AtMost257 == result <= 257

\* C10: once a call to read has returned 0, every later call returns 0 and
\* emits no byte.
C10_ZeroIsFinal == [][zero_seen => result' = 0 /\ buf' = <<>>]_vars

-----------------------------------------------------------------------------
(* Two decoder instances of one method, fed the same compressed bytes.     *)

\* The largest number of calls to read made on each of the two instances.
MaxReads == 3

\* the instance every read would use if the decoder kept its state in one
\* static structure
instance_static(insts, data) == insts[1]

\* lha_lh_new_read finds the instance it works on through its data argument.
instance(insts, data) == insts[data]

\* what a caller sees of one call to read
Seen(r) == [ret |-> r.ret, bytes |-> BufBytes(r.buf)]

\* The bytes of a decoder come from outside it: lha_lh_new_init hands
\* callback and callback_data to the bit stream reader, which keeps them
\* and calls callback(buf, n, callback_data) when a read needs bits it has
\* not.  A source is what callback_data points to: the bytes of a stream
\* and the number of them the callback has delivered.
NewSource(bytes) == [bytes |-> bytes, taken |-> 0]

\* the bytes the callback has yet to deliver from the source src
Rest(src) == SubSeq(src.bytes, src.taken + 1, Len(src.bytes))

\* The most bytes a bit stream reader asks its callback for at a time: one
\* byte, or the four of its accumulator.
Refills == {1, 4}

\* lha_lh_new_init on an instance of its own, with callback_data the
\* source the instance is to read; its bit stream reader has no byte yet
NewInstanceOn(m, w, refill, callback_data) ==
    [dec |-> [NewDecoderOn(m, <<>>, w)
                  EXCEPT !.bit_stream_reader.refill = refill],
     callback_data |-> callback_data]

\* lha_lh_new_read called with data on the instances insts, whose
\* callbacks read the sources srcs.  The call works on the instance data
\* points to; its bit stream reader has the bytes it took before and
\* takes the next bytes of the source behind its callback_data, which that
\* source then has no more: the bytes its refills took, and every byte the
\* source had when a read failed for want of bits.
ReadOn(insts, srcs, data) ==
    LET inst == instance(insts, data)
        had == Len(inst.dec.bit_stream_reader.data)
    IN  With(lha_lh_new_read(
                 [inst.dec EXCEPT !.bit_stream_reader.data =
                                      @ \o Rest(srcs[inst.callback_data])]),
             LAMBDA r :
                 LET fetched == r.dec.bit_stream_reader.fetched
                 IN  [ret |-> r.ret, buf |-> r.buf,
                      inst |-> [inst EXCEPT !.dec =
                                   [r.dec EXCEPT !.bit_stream_reader.data =
                                                     SubSeq(@, 1, fetched)]],
                      srcs |-> [srcs EXCEPT ![inst.callback_data].taken =
                                                @ + fetched - had]])

\* the streams of two blocks
TwoBlockStreams(m) ==
    {Pack(FieldsBits(a \o b)) : a \in FirstBlocks(m), b \in LastBlocks(m)}

\* Two instances of one method are initialised, each with a source of its
\* own that holds the same bytes, or (lh5, a stream of two blocks) both
\* with one source.  Readers that ask for more than a byte at a time
\* (lh5) are fed the streams of two blocks.
InitTwo ==
    /\ \E m \in Methods : \E w \in WideOutcomes(m) :
       \E refill \in (IF m = "lh5" THEN Refills ELSE {1}) :
       \E shared \in (IF m = "lh5" THEN BOOLEAN ELSE {FALSE}) :
       \E data \in (IF shared \/ refill > 1 THEN TwoBlockStreams(m)
                    ELSE Streams(m)) :
           /\ sources = IF shared THEN <<NewSource(data)>>
                        ELSE <<NewSource(data), NewSource(data)>>
           /\ decoder = NewInstanceOn(m, w, refill, 1)
           /\ decoder2 = NewInstanceOn(m, w, refill,
                                       IF shared THEN 1 ELSE 2)
    /\ results1 = <<>>
    /\ results2 = <<>>
    /\ result = -1
    /\ buf = <<>>
    /\ trace = NoTrace
    /\ total = <<>>
    /\ zero_seen = FALSE
    /\ ReaderUnused
    /\ ahead = <<>>

\* The caller calls read on the first instance.
Read1 ==
    /\ Len(results1) < MaxReads
    /\ \E r \in {ReadOn(<<decoder, decoder2>>, sources, 1)} :
           /\ decoder' = r.inst
           /\ sources' = r.srcs
           /\ results1' = Append(results1, Seen(r))
    /\ UNCHANGED <<decoder2, results2, result, buf, trace, total, zero_seen,
                   reader, objects, basic, dirs, last, history, ahead>>

\* The caller calls read on the second instance.
Read2 ==
    /\ Len(results2) < MaxReads
    /\ \E r \in {ReadOn(<<decoder, decoder2>>, sources, 2)} :
           /\ decoder2' = r.inst
           /\ sources' = r.srcs
           /\ results2' = Append(results2, Seen(r))
    /\ UNCHANGED <<decoder, results1, result, buf, trace, total, zero_seen,
                   reader, objects, basic, dirs, last, history, ahead>>

NextTwo == Read1 \/ Read2

SpecTwo == InitTwo /\ [][NextTwo]_vars

\* each of the two instances was initialised with a source of its own
OwnSources == decoder.callback_data # decoder2.callback_data

\* a call to read on one instance leaves the other instance and the source
\* of the other as they were
OthersUntouched ==
    /\ results1' # results1 =>
           /\ decoder2' = decoder2
           /\ sources'[decoder2.callback_data]
                  = sources[decoder2.callback_data]
    /\ results2' # results2 =>
           /\ decoder' = decoder
           /\ sources'[decoder.callback_data]
                  = sources[decoder.callback_data]

SharedSourceDiffers ==
    /\ ~OwnSources
    /\ Len(results1) >= 1 /\ Len(results2) >= 1
    /\ results1[1].ret > 0 /\ results2[1].ret > 0
    /\ results1[1] # results2[1]

-----------------------------------------------------------------------------
(* The reader, lib/lha_reader.c.  What the reader calls but this           *)
(* repository does not hold (LHADecoder, LHABasicReader, the MacBinary     *)
(* passthrough, the file system) is its environment: each call's outcome   *)
(* is one of the outcomes that interface allows, picked by env.            *)

\* The largest number of files the input stream delivers.
MaxFiles == 2

\* The largest number of LHADecoder objects created in one run.
MaxObjects == 3

\* The largest number of leading bytes a passthrough decoder strips.
MaxStrip == 1

\* the null pointer, for handles of LHADecoder objects
NULL == 0

\* sizeof(buf) in do_decode
DECODE_BUF_SIZE == 64

\* An LHADecoder object.  kind "decoder": plain is everything the
\* decompressor yields, pos how much of it has been read, chunk the most
\* bytes one read hands out, length and crc the decoder's output position
\* and running CRC.  kind "passthrough": a filter over the decoder inner
\* that strips the first strip bytes.  freed counts the calls of
\* lha_decoder_free on the object.
NewDecoder(plain, chunk) ==
    [kind |-> "decoder", plain |-> plain, pos |-> 0, chunk |-> chunk,
     length |-> 0, crc |-> 0, inner |-> NULL, strip |-> 0, freed |-> 0]

NewPassthrough(inner, strip) ==
    [kind |-> "passthrough", plain |-> <<>>, pos |-> 0, chunk |-> 0,
     length |-> 0, crc |-> 0, inner |-> inner, strip |-> strip,
     freed |-> 0]

\* lha_decoder_read on a decompressing decoder: up to buf_len bytes
decoder_read(objs, id, buf_len) ==
    LET o == objs[id]
        n == Min(Min(buf_len, o.chunk), Len(o.plain) - o.pos)
        bytes == SubSeq(o.plain, o.pos + 1, o.pos + n)
    IN  [objects |-> [objs EXCEPT ![id].pos = o.pos + n,
                                  ![id].length = o.length + n,
                                  ![id].crc = lha_crc16_buf(o.crc, bytes)],
         bytes |-> bytes]

lha_decoder_read(objs, id, buf_len) ==
    IF objs[id].kind = "decoder" THEN decoder_read(objs, id, buf_len)
    ELSE With(decoder_read(objs, objs[id].inner, objs[id].strip), LAMBDA d :
             With(decoder_read(d.objects, objs[id].inner, buf_len), LAMBDA r :
                 [objects |-> [r.objects EXCEPT ![id].strip = 0],
                  bytes |-> r.bytes]))

lha_decoder_get_length(objs, id) == objs[id].length

lha_decoder_get_crc(objs, id) == objs[id].crc

\* lha_decoder_free: the object's memory is given back, and with it what
\* the object held
lha_decoder_free(objs, id) ==
    [objs EXCEPT ![id] = [kind |-> @.kind, plain |-> <<>>, pos |-> 0,
                          chunk |-> 0, length |-> 0, crc |-> 0,
                          inner |-> @.inner, strip |-> 0,
                          freed |-> @.freed + 1]]

\* lha_basic_reader_decode: a new decoder for the current file's data, or
\* NULL
lha_basic_reader_decode(objs, env) ==
    IF env.decode_ok
    THEN [objects |-> Append(objs, NewDecoder(env.plain, env.chunk)),
          id |-> Len(objs) + 1]
    ELSE [objects |-> objs, id |-> NULL]

\* lha_macbinary_passthrough: a new passthrough decoder over inner, or NULL
lha_macbinary_passthrough(objs, inner, env) ==
    IF env.passthrough_ok
    THEN [objects |-> Append(objs, NewPassthrough(inner, env.strip)),
          id |-> Len(objs) + 1]
    ELSE [objects |-> objs, id |-> NULL]

\* A file header.  path is the sequence of the directory names of the
\* path, <<>> for the NULL path of a file at the top level; symlink is
\* whether symlink_target is set; id is the number of the LHAFileHeader
\* object, NULL in a description of a file that is not an object yet.
Header(method, path, symlink, os_type, length, crc) ==
    [compress_method |-> method, path |-> path, symlink |-> symlink,
     os_type |-> os_type, length |-> length, crc |-> crc, id |-> NULL]

\* the NULL file header
NoFile == Header("NULL", <<>>, FALSE, "UNIX", 0, 0)

LHA_COMPRESS_TYPE_DIR == "-lhd-"

\* The basic reader: the file it is at (NoFile before the first file and
\* at the end of the stream), the number of files it has delivered, and the
\* LHAFileHeader objects it has allocated.  Header number id is headers[id]:
\* hdr is what the stream said of the file, next the header's _next field
\* (the id of another header or NULL) and refs the header's reference
\* count; the memory of a header is given back when refs falls to 0.
lha_basic_reader_new ==
    [curr_file |-> NoFile, eof |-> FALSE, count |-> 0, headers |-> <<>>]

\* a pointer that is not NULL and is the address of no header
WILD == -1

\* lha_file_header_add_ref on header id
lha_file_header_add_ref(headers, id) ==
    [headers EXCEPT ![id].refs = @ + 1]

\* lha_file_header_free on header id: with the last reference the
\* header's memory is given back, and with it what the header held
lha_file_header_free(headers, id) ==
    IF id = WILD THEN headers
    ELSE IF headers[id].refs > 1 THEN [headers EXCEPT ![id].refs = @ - 1]
    ELSE [headers EXCEPT ![id] = [hdr |-> [NoFile EXCEPT !.id = id],
                                  next |-> NULL, refs |-> 0]]

\* lha_basic_reader_next_file: gives up its reference to the file it was
\* at and goes on to the file nxt, NoFile when the stream ends here
lha_basic_reader_next_file(b, nxt) ==
    IF b.eof THEN b
    ELSE LET hs == IF b.curr_file = NoFile THEN b.headers
                   ELSE lha_file_header_free(b.headers, b.curr_file.id)
         IN  IF nxt = NoFile
             THEN [b EXCEPT !.curr_file = NoFile, !.eof = TRUE,
                            !.headers = hs]
             ELSE LET h == [nxt EXCEPT !.id = b.count + 1]
                  IN  [curr_file |-> h, eof |-> FALSE, count |-> b.count + 1,
                       headers |-> Append(hs, [hdr |-> h, next |-> NULL,
                                               refs |-> 1])]

lha_basic_reader_curr_file(b) == b.curr_file

\* lha_basic_reader_free: gives up its reference to the file it is at
lha_basic_reader_free(b) ==
    IF b.curr_file = NoFile THEN b
    ELSE [b EXCEPT !.headers = lha_file_header_free(@, b.curr_file.id)]

\* Whether path a begins with path b (strncmp over the length of b).
BeginsWith(a, b) == Len(a) >= Len(b) /\ SubSeq(a, 1, Len(b)) = b

\* The functions of the reader work on st = [reader, objects, basic, dirs]
\* and return st after the call together with ret, the C return value.
Ret(st, ret) ==
    [reader |-> st.reader, objects |-> st.objects, basic |-> st.basic,
     dirs |-> st.dirs, ret |-> ret]

lha_reader_new ==
    [curr_file |-> NoFile,
     curr_file_type |-> "CURR_FILE_START",
     decoder |-> NULL,
     inner_decoder |-> NULL,
     dir_stack |-> NULL,
     dir_policy |-> "LHA_READER_DIR_END_OF_DIR"]

\* the header object that a pointer, not NULL, points to
HeaderAt(st, id) == st.basic.headers[id]

\* whether the pointer id, not NULL, points to no header or to one whose
\* memory has been given back
Freed(headers, id) == id = WILD \/ headers[id].refs = 0

Dangling(st, id) == Freed(st.basic.headers, id)

\* what is read of the header id after its memory was given back, when its
\* path reads as path
FreedHeader(id, path) == [NoFile EXCEPT !.id = id, !.path = path]

\* A use of a header whose memory has been given back is undefined.  stale
\* is what becomes of it: stale.stop, the call does not return (the read
\* faults, or the run is stopped); otherwise the call goes on with what it
\* read, stale.next for _next, stale.path for the path and stale.differs
\* for the comparison of the path with an input file's.  A call returns ub,
\* whether it used such a header, and stopped, whether it did not return;
\* the state is then the state it had come to.
NoStale == [next |-> NULL, differs |-> FALSE, path |-> <<>>, stop |-> FALSE]

\* The while loop of lha_reader_free from the header id on: the headers
\* after it and the header it is at, NULL when the list ended.  A loop that
\* comes from a freed header to a freed header does not end.
RECURSIVE FreeStack(_, _, _)
FreeStack(headers, id, stale) ==
    IF id = NULL
    THEN [headers |-> headers, top |-> NULL, ub |-> FALSE, stopped |-> FALSE]
    ELSE IF Freed(headers, id)
    THEN IF \/ stale.stop
            \/ stale.next # NULL /\ Freed(headers, stale.next)
         THEN [headers |-> headers, top |-> id, ub |-> TRUE,
               stopped |-> TRUE]
         ELSE With(FreeStack(headers, stale.next, stale), LAMBDA f :
                  [f EXCEPT !.ub = TRUE])
    ELSE FreeStack(lha_file_header_free(headers, id), headers[id].next,
                   stale)

\* lha_reader_free
lha_reader_free(st, stale) ==
    LET r0 == st.reader
        o1 == IF r0.decoder # NULL
              THEN lha_decoder_free(st.objects, r0.decoder)
              ELSE st.objects
        inner1 == IF r0.decoder # NULL /\ r0.inner_decoder = r0.decoder
                  THEN NULL
                  ELSE r0.inner_decoder
        o2 == IF inner1 # NULL THEN lha_decoder_free(o1, inner1) ELSE o1
    IN  With(FreeStack(st.basic.headers, r0.dir_stack, stale), LAMBDA f :
            LET b1 == [st.basic EXCEPT !.headers = f.headers]
                last_ub == /\ b1.curr_file # NoFile
                           /\ Freed(b1.headers, b1.curr_file.id)
                stops == f.stopped \/ (last_ub /\ stale.stop)
            IN  [reader |-> [r0 EXCEPT !.inner_decoder = inner1,
                                       !.dir_stack = f.top],
                 objects |-> o2,
                 basic |-> IF stops THEN b1 ELSE lha_basic_reader_free(b1),
                 dirs |-> st.dirs, ret |-> 0,
                 ub |-> f.ub \/ last_ub, stopped |-> stops])

\* whether end_of_top_dir reads the path of the header on top of dir_stack
ReadsTop(st) ==
    /\ st.reader.dir_stack # NULL
    /\ lha_basic_reader_curr_file(st.basic) # NoFile
    /\ st.reader.dir_policy = "LHA_READER_DIR_END_OF_DIR"
    /\ lha_basic_reader_curr_file(st.basic).path # <<>>

\* whether end_of_top_dir takes strlen of the path of the header on top of
\* dir_stack and that path is NULL: the read through the null pointer
\* faults, and the call does not return
NullTop(st) ==
    /\ ReadsTop(st)
    /\ ~Dangling(st, st.reader.dir_stack)
    /\ HeaderAt(st, st.reader.dir_stack).hdr.path = <<>>

\* dir_stack is the linked list of headers, top first, through _next.
\* What end_of_top_dir returns, where it returns (~NullTop(st)).
end_of_top_dir(st, stale) ==
    IF st.reader.dir_stack = NULL THEN FALSE
    ELSE LET input == lha_basic_reader_curr_file(st.basic)
         IN  IF input = NoFile THEN TRUE
             ELSE CASE st.reader.dir_policy = "LHA_READER_DIR_END_OF_FILE"
                         -> FALSE
                    [] st.reader.dir_policy = "LHA_READER_DIR_END_OF_DIR"
                         -> \/ input.path = <<>>
                            \/ IF Dangling(st, st.reader.dir_stack)
                               THEN stale.differs
                               ELSE ~BeginsWith(input.path,
                                        HeaderAt(st, st.reader.dir_stack)
                                            .hdr.path)
                    [] OTHER -> TRUE

\* lha_reader_next_file; nxt is the file the input stream holds next.  ret
\* is the header returned, and wrote whether the call wrote to a header
\* whose memory had been given back (lha_file_header_free of it).
lha_reader_next_file(st, nxt, stale) ==
    LET r0 == st.reader
        o1 == IF r0.decoder # NULL
              THEN lha_decoder_free(st.objects, r0.decoder)
              ELSE st.objects
        inner1 == IF r0.decoder # NULL /\ r0.inner_decoder = r0.decoder
                  THEN NULL
                  ELSE r0.inner_decoder
        o2 == IF inner1 # NULL THEN lha_decoder_free(o1, inner1) ELSE o1
        r1 == [r0 EXCEPT !.decoder = NULL, !.inner_decoder = NULL]
    IN  IF r1.curr_file_type = "CURR_FILE_EOF"
        THEN [reader |-> r1, objects |-> o2, basic |-> st.basic,
              dirs |-> st.dirs, ret |-> NoFile, ub |-> FALSE,
              stopped |-> FALSE, wrote |-> FALSE]
        ELSE
        LET advance == r1.curr_file_type \in {"CURR_FILE_START",
                                              "CURR_FILE_NORMAL"}
            ub0 == /\ advance /\ ~st.basic.eof
                   /\ st.basic.curr_file # NoFile
                   /\ Freed(st.basic.headers, st.basic.curr_file.id)
            b1 == IF advance
                  THEN lha_basic_reader_next_file(st.basic, nxt)
                  ELSE st.basic
            ub1 == /\ r1.curr_file_type = "CURR_FILE_FAKE_DIR"
                   /\ Freed(b1.headers, r1.curr_file.id)
            b2 == IF r1.curr_file_type = "CURR_FILE_FAKE_DIR"
                  THEN [b1 EXCEPT !.headers =
                           lha_file_header_free(@, r1.curr_file.id)]
                  ELSE b1
            st1 == [reader |-> r1, objects |-> o2, basic |-> b2,
                    dirs |-> st.dirs]
            pop == end_of_top_dir(st1, stale)
            ub2 == /\ r1.dir_stack # NULL
                   /\ Dangling(st1, r1.dir_stack)
                   /\ ReadsTop(st1) \/ pop
            r2 == IF pop
                  THEN [r1 EXCEPT
                           !.curr_file =
                               IF Dangling(st1, r1.dir_stack)
                               THEN FreedHeader(r1.dir_stack, stale.path)
                               ELSE HeaderAt(st1, r1.dir_stack).hdr,
                           !.dir_stack =
                               IF Dangling(st1, r1.dir_stack)
                               THEN stale.next
                               ELSE HeaderAt(st1, r1.dir_stack).next,
                           !.curr_file_type = "CURR_FILE_FAKE_DIR"]
                  ELSE LET f == lha_basic_reader_curr_file(b2)
                       IN  [r1 EXCEPT
                               !.curr_file = f,
                               !.curr_file_type =
                                   IF f # NoFile THEN "CURR_FILE_NORMAL"
                                   ELSE "CURR_FILE_EOF"]
        IN  IF ((ub0 \/ ub1 \/ ub2) /\ stale.stop) \/ NullTop(st1)
            THEN [reader |-> r1, objects |-> o2, basic |-> st.basic,
                  dirs |-> st.dirs, ret |-> NoFile,
                  ub |-> ub0 \/ ub1 \/ ub2, stopped |-> TRUE,
                  wrote |-> FALSE]
            ELSE [reader |-> r2, objects |-> o2, basic |-> b2,
                  dirs |-> st.dirs, ret |-> r2.curr_file,
                  ub |-> ub0 \/ ub1 \/ ub2, stopped |-> FALSE,
                  wrote |-> ub0 \/ ub1]

open_decoder(st, env) ==
    IF st.reader.curr_file_type # "CURR_FILE_NORMAL" THEN Ret(st, 0)
    ELSE
    LET a == lha_basic_reader_decode(st.objects, env)
        st1 == [st EXCEPT !.objects = a.objects,
                          !.reader.inner_decoder = a.id]
    IN  IF a.id = NULL THEN Ret(st1, 0)
        ELSE IF st.reader.curr_file.os_type = "LHA_OS_TYPE_MACOS"
        THEN LET p == lha_macbinary_passthrough(a.objects, a.id, env)
                 st2 == [st1 EXCEPT !.objects = p.objects,
                                    !.reader.decoder = p.id]
             IN  Ret(st2, IF p.id = NULL THEN 0 ELSE 1)
        ELSE Ret([st1 EXCEPT !.reader.decoder = a.id], 1)

\* lha_reader_read; ret is the number of bytes read and bytes the bytes.
lha_reader_read(st, env, buf_len) ==
    With(IF st.reader.decoder = NULL THEN open_decoder(st, env)
         ELSE Ret(st, 1),
         LAMBDA o :
    IF o.ret = 0
    THEN [reader |-> o.reader, objects |-> o.objects,
          basic |-> o.basic, dirs |-> o.dirs, ret |-> 0, bytes |-> <<>>]
    ELSE With(lha_decoder_read(o.objects, o.reader.decoder, buf_len),
              LAMBDA r :
                  [reader |-> o.reader, objects |-> r.objects,
                   basic |-> o.basic, dirs |-> o.dirs, ret |-> Len(r.bytes),
                   bytes |-> r.bytes]))

\* The do-while loop of do_decode from its pass number k on.  output is
\* whether the output stream is not NULL, env.short_at the number of the
\* first fwrite that writes less than it was given (0: none does), reads
\* the numbers of bytes read so far.  short is whether the loop returned
\* from inside.
RECURSIVE decode_loop(_, _, _, _, _)
decode_loop(st, env, output, k, reads) ==
    With(lha_reader_read(st, env, DECODE_BUF_SIZE), LAMBDA r :
        LET st1 == [reader |-> r.reader, objects |-> r.objects,
                    basic |-> r.basic, dirs |-> r.dirs]
            rs == Append(reads, r.ret)
        IN  IF output /\ r.ret > 0 /\ env.short_at = k
            THEN [st |-> st1, reads |-> rs, short |-> TRUE]
            ELSE IF r.ret > 0
            THEN decode_loop(st1, env, output, k + 1, rs)
            ELSE [st |-> st1, reads |-> rs, short |-> FALSE])

\* do_decode that compares the decoded length alone
do_decode_length_only(st, env, output) ==
    With(decode_loop(st, env, output, 1, <<>>), LAMBDA l :
        LET same == lha_decoder_get_length(l.st.objects,
                                           l.st.reader.inner_decoder)
                        = l.st.reader.curr_file.length
        IN  [reader |-> l.st.reader, objects |-> l.st.objects,
             basic |-> l.st.basic, dirs |-> l.st.dirs, reads |-> l.reads,
             short |-> l.short,
             ret |-> IF ~l.short /\ same THEN 1 ELSE 0])

do_decode(st, env, output) ==
    With(decode_loop(st, env, output, 1, <<>>), LAMBDA l :
        LET same == /\ lha_decoder_get_length(l.st.objects,
                                              l.st.reader.inner_decoder)
                           = l.st.reader.curr_file.length
                    /\ lha_decoder_get_crc(l.st.objects,
                                           l.st.reader.inner_decoder)
                           = l.st.reader.curr_file.crc
        IN  [reader |-> l.st.reader, objects |-> l.st.objects,
             basic |-> l.st.basic, dirs |-> l.st.dirs, reads |-> l.reads,
             short |-> l.short,
             ret |-> IF ~l.short /\ same THEN 1 ELSE 0])

\* a call that did not get to do_decode
NoDecode(r) ==
    [reader |-> r.reader, objects |-> r.objects, basic |-> r.basic,
     dirs |-> r.dirs, reads |-> <<>>, short |-> FALSE, ret |-> r.ret]

lha_reader_check(st, env) ==
    IF st.reader.curr_file_type # "CURR_FILE_NORMAL"
    THEN NoDecode(Ret(st, 0))
    ELSE IF st.reader.curr_file.compress_method = LHA_COMPRESS_TYPE_DIR
    THEN NoDecode(Ret(st, 1))
    ELSE With(open_decoder(st, env), LAMBDA o :
             IF o.ret = 0 THEN NoDecode(o)
             ELSE do_decode(o, env, FALSE))

\* lha_arch_mkdir: makes the directory unless it is there or the file
\* system refuses
lha_arch_mkdir(st, path, env) ==
    IF env.mkdir_ok /\ path \notin st.dirs
    THEN Ret([st EXCEPT !.dirs = @ \cup {path}], 1)
    ELSE Ret(st, 0)

\* lha_arch_exists(path) == LHA_FILE_DIRECTORY
lha_arch_exists(st, path) == path \in st.dirs

\* the filename argument that is NULL
NoName == <<>>

\* extract_directory; env.filename is the argument path
extract_directory(st, env) ==
    LET header == st.reader.curr_file
        path == IF env.filename = NoName THEN header.path ELSE env.filename
        m == lha_arch_mkdir(st, path, env)
    IN  IF m.ret = 0
        THEN Ret(m, IF lha_arch_exists(m, path) THEN 1 ELSE 0)
        ELSE IF m.reader.dir_policy = "LHA_READER_DIR_PLAIN" THEN Ret(m, 1)
        ELSE Ret([m EXCEPT
                     !.basic.headers =
                         [lha_file_header_add_ref(@, header.id)
                              EXCEPT ![header.id].next = m.reader.dir_stack],
                     !.reader.dir_stack = header.id], 1)

\* extract_file; the file name is built from the header, which may fail,
\* when the argument filename is NULL
extract_file(st, env) ==
    IF env.filename = NoName /\ ~env.path_ok THEN NoDecode(Ret(st, 0))
    ELSE With(open_decoder(st, env), LAMBDA o :
             IF o.ret = 0 THEN NoDecode(o)
             ELSE IF ~env.fopen_ok THEN NoDecode(Ret(o, 0))
             ELSE do_decode(o, env, TRUE))

extract_symlink(st, env) ==
    IF env.filename = NoName /\ ~env.path_ok THEN Ret(st, 0)
    ELSE Ret(st, IF env.symlink_ok THEN 1 ELSE 0)

extract_normal(st, env) ==
    IF st.reader.curr_file.compress_method # LHA_COMPRESS_TYPE_DIR
    THEN extract_file(st, env)
    ELSE IF st.reader.curr_file.symlink
    THEN NoDecode(extract_symlink(st, env))
    ELSE NoDecode(extract_directory(st, env))

\* the return value of a call that does not return
NoReturn == -1

\* whether lha_reader_extract reads a header whose memory has been given
\* back
UsesFreed(st) ==
    /\ st.reader.curr_file_type
           \in {"CURR_FILE_NORMAL", "CURR_FILE_FAKE_DIR"}
    /\ Dangling(st, st.reader.curr_file.id)

\* lha_reader_extract.  The call reads the header of the current file;
\* env.stop is whether the call does not return when the memory of that
\* header has been given back.
lha_reader_extract(st, env) ==
    IF UsesFreed(st) /\ env.stop
    THEN NoDecode(Ret(st, NoReturn))
    ELSE
    CASE st.reader.curr_file_type = "CURR_FILE_NORMAL"
             -> extract_normal(st, env)
      [] st.reader.curr_file_type = "CURR_FILE_FAKE_DIR"
             -> NoDecode(Ret(st, 1))
      [] OTHER -> NoDecode(Ret(st, 0))

\* lha_reader_set_dir_policy
lha_reader_set_dir_policy(st, policy) ==
    [st EXCEPT !.reader.dir_policy = policy]

-----------------------------------------------------------------------------
(* The files of the input stream and the outcomes of the environment.      *)

\* what the decompressor of a file may yield: nothing, and two texts of
\* one length
Plains == {<<>>, <<65, 66>>, <<65, 65>>}

\* the most bytes a decoder hands out in one read: one byte, or as many as
\* the caller's buffer holds
Chunks == {1, DECODE_BUF_SIZE}

\* a file whose header holds the length and the CRC of the text p
FileOf(p, os_type, path) ==
    Header("-lh5-", path, FALSE, os_type, Len(p), lha_crc16_buf(0, p))

Entries ==
    {FileOf(<<>>, "LHA_OS_TYPE_UNIX", <<>>),
     FileOf(<<65, 66>>, "LHA_OS_TYPE_UNIX", <<>>),
     FileOf(<<65, 66>>, "LHA_OS_TYPE_MACOS", <<>>),
     Header(LHA_COMPRESS_TYPE_DIR, <<"a">>, FALSE, "LHA_OS_TYPE_UNIX", 0, 0),
     Header(LHA_COMPRESS_TYPE_DIR, <<>>, TRUE, "LHA_OS_TYPE_UNIX", 0, 0)}

\* the paths a caller passes as filename to have an entry extracted
\* somewhere else than its header says
Filenames == {<<"x">>}

\* the environment in which every call succeeds, with the argument
\* filename NULL
Succeeds ==
    [decode_ok |-> TRUE, plain |-> <<>>, chunk |-> 1,
     passthrough_ok |-> TRUE,
     strip |-> 0, path_ok |-> TRUE, fopen_ok |-> TRUE, short_at |-> 0,
     mkdir_ok |-> TRUE, symlink_ok |-> TRUE, filename |-> NoName,
     stop |-> FALSE]

\* The outcomes of the environment during a call that decodes: what the
\* decoder yields, how it hands it out and what the passthrough strips, or
\* no decoder.
DecodeEnvs ==
    {[Succeeds EXCEPT !.plain = p] : p \in Plains}
    \cup {[Succeeds EXCEPT !.plain = <<65, 66>>, !.chunk = c] :
             c \in Chunks}
    \cup {[Succeeds EXCEPT !.plain = <<65, 66>>, !.strip = k] :
             k \in 1..MaxStrip}
    \cup {[Succeeds EXCEPT !.decode_ok = FALSE],
          [Succeeds EXCEPT !.passthrough_ok = FALSE]}

\* The outcomes of the environment during a call that extracts: those, a
\* short fwrite, or one failure of the file system.
Envs ==
    DecodeEnvs
    \cup {[Succeeds EXCEPT !.plain = <<65, 66>>, !.short_at = w] :
             w \in 1..2}
    \cup {[Succeeds EXCEPT !.path_ok = FALSE],
          [Succeeds EXCEPT !.fopen_ok = FALSE],
          [Succeeds EXCEPT !.mkdir_ok = FALSE],
          [Succeeds EXCEPT !.symlink_ok = FALSE]}

-----------------------------------------------------------------------------
(* A reader and the calls made on it.                                      *)

ReaderState ==
    [reader |-> reader, objects |-> objects, basic |-> basic, dirs |-> dirs]

\* The most entries kept in a list of the history.
MaxLog == 4

\* a list of the history with one more entry, while it has room
Logged(log, e) == IF Len(log) < MaxLog THEN Append(log, e) ELSE log

\* The history of a reader: the ids of the headers that extract put on
\* dir_stack, of the headers that lha_reader_next_file returned as fake
\* directories and of those it returned as normal files, each in call
\* order; popped, the ids of the headers returned as fake directories
\* since the basic reader was last advanced; whether lha_reader_next_file
\* has returned NULL, and whether it has returned a header after that;
\* applied, the paths, not NULL, of the headers returned as fake
\* directories, and
\* inside, whether a file was returned as a normal file whose path begins
\* with one of them; set, whether lha_reader_set_dir_policy was called,
\* after which the lists are kept no longer; uses, the number of calls that
\* used a header whose memory had been given back, and wrote, whether one
\* of them wrote to that memory and returned.
NoHistory ==
    [pushed |-> <<>>, fakes |-> <<>>, normals |-> <<>>, popped |-> <<>>,
     null |-> FALSE, late |-> FALSE, applied |-> {}, inside |-> FALSE,
     set |-> FALSE, uses |-> 0, wrote |-> FALSE]

\* The most calls on one reader that use a header whose memory has been
\* given back.
MaxStale == 2

\* the history h after a call; ub is whether the call used such a header
\* and wrote whether it wrote to it
Counted(h, ub, wrote) ==
    IF ub THEN [h EXCEPT !.uses = @ + 1, !.wrote = @ \/ wrote] ELSE h

\* whether a call that is to use such a header can still be made
RoomForStale(ub) == ub => history.uses < MaxStale

\* The history after lha_reader_next_file left the reader as r.  The call
\* advanced the basic reader when the file before was the start or a
\* normal file.
AfterNextFile(r) ==
    LET since == IF reader.curr_file_type
                        \in {"CURR_FILE_START", "CURR_FILE_NORMAL"}
                 THEN <<>>
                 ELSE history.popped
    IN  CASE r.curr_file_type = "CURR_FILE_FAKE_DIR" ->
                 [history EXCEPT !.fakes = Logged(@, r.curr_file.id),
                                 !.popped = Logged(since, r.curr_file.id),
                                 !.late = history.null,
                                 !.applied =
                                     IF r.curr_file.path = <<>> THEN @
                                     ELSE @ \cup {r.curr_file.path}]
          [] r.curr_file_type = "CURR_FILE_NORMAL" ->
                 [history EXCEPT !.normals = Logged(@, r.curr_file.id),
                                 !.popped = since,
                                 !.late = history.null,
                                 !.inside =
                                     \/ @
                                     \/ /\ r.curr_file.compress_method
                                               # LHA_COMPRESS_TYPE_DIR
                                        /\ \E d \in history.applied :
                                               BeginsWith(r.curr_file.path, d)]
          [] OTHER -> [history EXCEPT !.null = TRUE, !.popped = since]

\* the history after lha_reader_extract on the current file left the
\* headers as hs: the header has one more reference when it was put on
\* dir_stack
AfterExtract(hs) ==
    IF hs # basic.headers
    THEN [history EXCEPT !.pushed = Logged(@, reader.curr_file.id)]
    ELSE history

\* the paths a header may read as after its memory was given back
StalePaths == {<<>>, <<"a">>}

\* What may become of the use of a header whose memory has been given
\* back: the call does not return, or it reads any pointer as its _next
\* and any path.
Stales ==
    [next : {NULL, WILD} \cup (1..Len(basic.headers)), differs : BOOLEAN,
     path : StalePaths, stop : BOOLEAN]

\* the reader has not been freed, and every call on it has returned
Alive == last.op \notin {"free", "stopped"}

\* A write to memory that has been given back damages the allocator's
\* records.  A later call that gives memory back or asks for memory
\* (heap: whether the call does) may then be stopped by the allocator:
\* the outcomes of such a call, TRUE for the call that does not return.
HeapStops(heap) == IF history.wrote /\ heap THEN BOOLEAN ELSE {FALSE}

\* whether lha_reader_next_file gives memory back or asks for memory: it
\* frees the decoders, advances the basic reader, or frees the fake
\* directory it returned before
NextFileHeap ==
    \/ reader.decoder # NULL \/ reader.inner_decoder # NULL
    \/ reader.curr_file_type \in {"CURR_FILE_START", "CURR_FILE_NORMAL"}
           /\ ~basic.eof
    \/ reader.curr_file_type = "CURR_FILE_FAKE_DIR"

\* whether a call that reads, checks or extracts the current file asks
\* for memory: it does for a normal file
FileHeap == reader.curr_file_type = "CURR_FILE_NORMAL"

\* what the caller has of a call that did not return
Stopped == [op |-> "stopped", ret |-> NoReturn, reads |-> <<>>, short |-> FALSE]

\* the reader after a call that the allocator stopped
HeapStopped ==
    /\ last' = Stopped
    /\ UNCHANGED <<reader, objects, basic, dirs, history>>


InitReader ==
    /\ reader = lha_reader_new
    /\ objects = <<>>
    /\ basic = lha_basic_reader_new
    /\ dirs \in SUBSET {<<"a">>}
    /\ last = [op |-> "new", ret |-> 1, reads |-> <<>>, short |-> FALSE]
    /\ history = NoHistory
    /\ decoder = <<>>
    /\ decoder2 = <<>>
    /\ sources = <<>>
    /\ results1 = <<>>
    /\ results2 = <<>>
    /\ result = -1
    /\ buf = <<>>
    /\ trace = NoTrace
    /\ total = <<>>
    /\ zero_seen = FALSE
    /\ ahead = <<>>

DecoderUnused ==
    UNCHANGED <<decoder, decoder2, sources, results1, results2, result, buf, trace,
                total, zero_seen, ahead>>

\* a call may create two LHADecoder objects
RoomForObjects == Len(objects) + 2 <= MaxObjects

\* A call of lha_reader_next_file on a stream of at most max files out of
\* entries; logged is whether the history is kept.
NextFileOf(entries, max, logged) ==
    /\ Alive
    /\ \E stops \in HeapStops(NextFileHeap) :
       IF stops THEN HeapStopped
       ELSE
       \E nxt \in (IF basic.count < max THEN entries ELSE {})
                      \cup {NoFile} :
       \E stale \in (IF lha_reader_next_file(ReaderState, nxt, NoStale).ub
                      THEN Stales ELSE {NoStale}) :
       \E r \in {lha_reader_next_file(ReaderState, nxt, stale)} :
           /\ RoomForStale(r.ub)
           /\ reader' = r.reader
           /\ objects' = r.objects
           /\ basic' = r.basic
           /\ dirs' = r.dirs
           /\ last' = IF r.stopped THEN Stopped
                      ELSE [op |-> "next_file",
                            ret |-> IF r.ret = NoFile THEN 0 ELSE 1,
                            reads |-> <<>>, short |-> FALSE]
           /\ history' = Counted(IF logged /\ ~history.set /\ ~r.stopped
                                  THEN AfterNextFile(r.reader)
                                  ELSE history, r.ub, r.wrote)
    /\ DecoderUnused

NextFile == NextFileOf(Entries, MaxFiles, FALSE)

ReaderRead ==
    /\ Alive
    /\ RoomForObjects
    /\ \E stops \in HeapStops(FileHeap /\ reader.decoder = NULL) :
       IF stops THEN HeapStopped
       ELSE
       \E env \in DecodeEnvs :
       \E r \in {lha_reader_read(ReaderState, env, DECODE_BUF_SIZE)} :
           /\ reader' = r.reader
           /\ objects' = r.objects
           /\ basic' = r.basic
           /\ dirs' = r.dirs
           /\ last' = [op |-> "read", ret |-> r.ret,
                       reads |-> <<>>, short |-> FALSE]
           /\ history' = history
    /\ DecoderUnused

Check ==
    /\ Alive
    /\ RoomForObjects
    /\ \E stops \in HeapStops(FileHeap) :
       IF stops THEN HeapStopped
       ELSE
       \E env \in DecodeEnvs :
       \E r \in {lha_reader_check(ReaderState, env)} :
           /\ reader' = r.reader
           /\ objects' = r.objects
           /\ basic' = r.basic
           /\ dirs' = r.dirs
           /\ last' = [op |-> "check", ret |-> r.ret,
                       reads |-> r.reads, short |-> r.short]
           /\ history' = history
    /\ DecoderUnused

\* A call of lha_reader_extract in an environment out of envs; logged is
\* whether the history is kept.
ExtractOf(envs, logged) ==
    /\ Alive
    /\ RoomForObjects
    /\ \E stops \in HeapStops(FileHeap) :
       IF stops THEN HeapStopped
       ELSE
       \E env \in envs :
       \E r \in {lha_reader_extract(ReaderState, env)} :
           /\ RoomForStale(UsesFreed(ReaderState))
           /\ reader' = r.reader
           /\ objects' = r.objects
           /\ basic' = r.basic
           /\ dirs' = r.dirs
           /\ last' = IF r.ret = NoReturn THEN Stopped
                      ELSE [op |-> "extract", ret |-> r.ret,
                            reads |-> r.reads, short |-> r.short]
           /\ history' = Counted(IF logged /\ ~history.set
                                  THEN AfterExtract(r.basic.headers)
                                  ELSE history, UsesFreed(ReaderState),
                                  /\ r.ret # NoReturn
                                  /\ r.basic.headers # basic.headers)
    /\ DecoderUnused

Extract == ExtractOf(Envs, FALSE)

\* The caller frees the reader; no call follows.
Free ==
    /\ Alive
    /\ \E stops \in HeapStops(TRUE) :
       IF stops THEN HeapStopped
       ELSE
       \E stale \in (IF lha_reader_free(ReaderState, NoStale).ub
                      THEN Stales ELSE {NoStale}) :
       \E r \in {lha_reader_free(ReaderState, stale)} :
           /\ RoomForStale(r.ub)
           /\ reader' = r.reader
           /\ objects' = r.objects
           /\ basic' = r.basic
           /\ dirs' = r.dirs
           /\ last' = IF r.stopped THEN Stopped
                      ELSE [op |-> "free", ret |-> r.ret,
                            reads |-> <<>>, short |-> FALSE]
           /\ history' = Counted(history, r.ub, FALSE)
    /\ DecoderUnused

Policies ==
    {"LHA_READER_DIR_PLAIN", "LHA_READER_DIR_END_OF_DIR",
     "LHA_READER_DIR_END_OF_FILE"}

\* A call of lha_reader_set_dir_policy that changes the policy; logged is
\* whether the history is kept.
SetDirPolicyOf(logged) ==
    /\ Alive
    /\ \E policy \in Policies \ {reader.dir_policy} :
           reader' = lha_reader_set_dir_policy(ReaderState, policy).reader
    /\ history' = IF logged
                  THEN [NoHistory EXCEPT !.set = TRUE,
                                         !.uses = history.uses,
                                         !.wrote = history.wrote]
                  ELSE history
    /\ UNCHANGED <<objects, basic, dirs, last>>
    /\ DecoderUnused

SetDirPolicy == SetDirPolicyOf(FALSE)

NextReader ==
    NextFile \/ ReaderRead \/ Check \/ Extract \/ Free \/ SetDirPolicy

SpecReader == InitReader /\ [][NextReader]_vars

\* the current entry is a file that has data to decode
IsFile ==
    /\ reader.curr_file_type = "CURR_FILE_NORMAL"
    /\ reader.curr_file.compress_method # LHA_COMPRESS_TYPE_DIR

\* C9: when lha_reader_check, or lha_reader_extract on a file, returns true,
\* the decoder was read until it returned 0 bytes, every write to the
\* output was complete, and the inner decoder's length and CRC equal the
\* header's; a short write makes the call return false.
C9_TrueOnlyOnMatch ==
    /\ last.op \in {"check", "extract"} /\ last.ret = 1 /\ IsFile
        => /\ reader.inner_decoder # NULL
           /\ lha_decoder_get_length(objects, reader.inner_decoder)
                  = reader.curr_file.length
           /\ lha_decoder_get_crc(objects, reader.inner_decoder)
                  = reader.curr_file.crc
           /\ last.reads # <<>>
           /\ last.reads[Len(last.reads)] = 0
           /\ \A k \in 1..(Len(last.reads) - 1) : last.reads[k] > 0
           /\ ~last.short
    /\ last.op \in {"check", "extract"} /\ last.short => last.ret = 0

\* A file was extracted in three reads, the last of them of 0 bytes, and
\* found to match its header.
C9_Witness ==
    /\ last.op = "extract" /\ last.ret = 1 /\ IsFile
    /\ Len(last.reads) = 3
    /\ reader.curr_file.length = 2

-----------------------------------------------------------------------------
(* Further properties of one decoder instance.                             *)

\* the number of commands the block held when the command of a call started:
\* what was left of the block, or the length of the header the call read
CommandsAtStart ==
    IF decoder.block_remaining > 0 THEN decoder.block_remaining
    ELSE trace'.hdrs[Len(trace'.hdrs)].len

\* C11: a call that decodes a copy symbol (c >= 256) and fails to read its
\* offset returns 0, writes nothing to the caller's buffer or to the ring
\* buffer, and leaves block_remaining one less than it was when the command
\* started.
C11_FailedCopyIsConsumed ==
    [][ trace'.code >= 256 /\ trace'.offset = -1
        => /\ result' = 0
           /\ buf' = <<>>
           /\ decoder'.ringbuf = decoder.ringbuf
           /\ decoder'.ringbuf_pos = decoder.ringbuf_pos
           /\ decoder'.block_remaining = CommandsAtStart - 1
      ]_vars

\* The last command of a block was a copy whose offset could not be read,
\* in a call that read no header: the block is used up.
C11_Witness ==
    /\ trace.code >= 256 /\ trace.offset = -1 /\ trace.hdrs = <<>>
    /\ decoder.block_remaining = 0 /\ total # <<>>

\* every cell of the ring buffer from index from on holds the byte b; the
\* cells past the ones kept hold the byte memset wrote
AllCellsFrom(d, from, b) ==
    /\ \A i \in from..(Len(d.ringbuf.cells) - 1) : d.ringbuf.cells[i + 1] = b
    /\ Len(d.ringbuf.cells) < RingSize(d) => d.ringbuf.fill = b

\* C12: after calls that emitted T bytes in all, ringbuf_pos is T mod
\* RING_BUFFER_SIZE, the cell k + 1 places before ringbuf_pos holds the k-th
\* most recently emitted byte for every k < min(T, RING_BUFFER_SIZE), and
\* every other cell holds 0x20.
C12_RingHoldsHistory ==
    LET T == Len(total)
    IN  /\ decoder.ringbuf_pos = T % RBS
        /\ decoder.ringbuf_pos \in 0..(RBS - 1)
        /\ \A k \in 0..(Min(T, RBS) - 1) :
               RingAt(decoder, (decoder.ringbuf_pos - 1 - k) % RBS)
                   = total[T - k]
        /\ T < RBS => AllCellsFrom(decoder, T, 32)

\* More bytes were emitted than the ring buffer holds, and the write
\* position has gone round.
C12_Witness ==
    /\ Len(total) > RBS /\ decoder.ringbuf_pos > 0
    /\ decoder.ringbuf_pos < result

\* C13: whatever offset was read, also one of RING_BUFFER_SIZE or more, byte
\* i of a copy is read at an index within the ring buffer, the index
\* (ringbuf_pos - offset - 1 + i) mod RING_BUFFER_SIZE.
C13_CopyIndexInRange ==
    [][ trace'.code >= 256 /\ trace'.offset >= 0
        => /\ Len(trace'.srcs) = result'
           /\ \A i \in 0..(result' - 1) :
                  /\ trace'.srcs[i + 1] \in 0..(RBS - 1)
                  /\ trace'.srcs[i + 1] =
                         (decoder.ringbuf_pos - trace'.offset - 1 + i) % RBS
      ]_vars

\* A copy was made from an offset several times the size of the ring
\* buffer.
C13_Witness ==
    /\ trace.code >= 256 /\ trace.offset >= 2 * RBS
    /\ result > 0 /\ Len(trace.srcs) = result

\* C14: every call of read_bits the decoder makes asks for between 1 and 16
\* bits.
C14_ReadBitsInContract ==
    decoder.bit_stream_reader.asked \subseteq 1..MAX_READ_BITS

-----------------------------------------------------------------------------
(* The tables of a block header.                                           *)

\* The number of cells of the local array code_lengths of the function that
\* reads the table of a kind.
Capacity(kind, m) ==
    CASE kind = "temp" -> MAX_TEMP_CODES
      [] kind = "code" -> NUM_CODES
      [] kind = "offset" -> HISTORY_BITS(m)

\* the tables that the last call to read took from the stream
TablesRead ==
    UNION {{trace.hdrs[h].tables[t] : t \in 1..Len(trace.hdrs[h].tables)} :
              h \in 1..Len(trace.hdrs)}

\* the tables among them that are given by their lengths
LengthTables == {t \in TablesRead : t.single = NONE}

\* those of the kinds in ks
TablesOf(ks) == {t \in LengthTables : t.kind \in ks}

\* C15: in read_temp_table, read_code_table and read_offset_table the
\* declared count is clamped to the capacity of the length array (20, 510,
\* HISTORY_BITS), every write into the array, those of the temp table's
\* skip and of the code table's zero runs included, is at an index below
\* the capacity, and every index below n has been written when build_tree
\* is called with n.
C15_TableWritesInBounds ==
    \A t \in LengthTables :
        LET cap == Capacity(t.kind, decoder.method)
        IN  /\ t.n = Min(t.declared, cap)
            /\ Len(t.code_lengths) <= cap
            /\ \A e \in 1..Len(t.log) :
                   t.log[e].at < cap /\ t.log[e].next <= cap
            /\ t.built =>
                   /\ Len(t.code_lengths) >= t.n
                   /\ \A i \in 1..t.n : t.code_lengths[i] # UNINIT

\* a header whose three tables were built, each after declaring more codes
\* than its array holds
C15_Witness ==
    \E h \in 1..Len(trace.hdrs) :
        /\ Len(trace.hdrs[h].tables) = 3
        /\ \A t \in 1..3 :
               LET r == trace.hdrs[h].tables[t]
               IN  /\ r.built
                   /\ r.declared > Capacity(r.kind, decoder.method)
                   /\ Len(r.code_lengths) = Capacity(r.kind, decoder.method)
\* C16: in read_temp_table the lengths are stored from index 0 on; the
\* pass that stores index 2, which needs n >= 3, is the only one that reads
\* a skip, of 2 bits and straight after the length; the indices 3..2+s
\* receive 0 and the next length is stored at index 3+s; the tree is built
\* from the first n lengths.
C16_TempSkipAfterIndexTwo ==
    \A t \in TablesOf({"temp"}) :
        /\ \A e \in 1..Len(t.log) :
               LET ev == t.log[e]
               IN  /\ ev.at = (IF e = 1 THEN 0 ELSE t.log[e - 1].next)
                   /\ ev.at < t.n
                   /\ IF ev.at = 2
                      THEN /\ e = 3
                           /\ ev.skip \in 0..3
                           /\ ev.skip_bits = 2
                           /\ ev.next = 3 + ev.skip
                           /\ \A i \in 3..(2 + ev.skip) :
                                  t.code_lengths[i + 1] = 0
                      ELSE ev.skip = NONE /\ ev.next = ev.at + 1
        /\ t.n < 3 => \A e \in 1..Len(t.log) : t.log[e].skip = NONE
        /\ t.built =>
               /\ t.n >= 3 => Len(t.log) >= 3
               /\ t.offset_tree_out =
                      build_tree(t.offset_tree_in,
                                 SubSeq(t.code_lengths, 1, t.n), t.n)

\* a temp table was built whose skip was 3 and that stored the length read
\* after it at index 6
C16_Witness ==
    \E t \in TablesOf({"temp"}) :
        t.built /\ Len(t.log) = 4 /\ t.log[3].skip = 3 /\ t.log[4].at = 6
\* the value of the n bits of the decoder's stream from bit pos on
BitsAt(pos, n) == StreamBits(decoder.bit_stream_reader.data, pos, n)

\* C17: in read_code_table every symbol decoded from the temp tree moves
\* the length index on by at least one: 0 writes one zero and reads no
\* bits, 1 reads 4 bits k and writes k + 3 zeros, 2 reads 9 bits k and
\* writes k + 20 zeros, each run cut at index n, and v >= 3 writes the one
\* length v - 2; the loop ends with exactly n lengths written.
C17_CodeTableRuns ==
    \A t \in TablesOf({"code"}) :
        /\ \A e \in 1..Len(t.log) :
               LET ev == t.log[e]
               IN  /\ ev.at = (IF e = 1 THEN 0 ELSE t.log[e - 1].next)
                   /\ ev.at < t.n
                   /\ ev.next > ev.at
                   /\ ev.next <= t.n
                   /\ CASE ev.val = 0 ->
                             ev.skip = 1 /\ ev.skip_bits = 0
                        [] ev.val = 1 ->
                             ev.skip = BitsAt(ev.pos, 4) + 3
                             /\ ev.skip_bits = 4
                        [] ev.val = 2 ->
                             ev.skip = BitsAt(ev.pos, 9) + 20
                             /\ ev.skip_bits = 9
                        [] OTHER -> ev.skip = NONE
                   /\ IF ev.val <= 2
                      THEN /\ ev.next = Min(ev.at + ev.skip, t.n)
                           /\ \A i \in ev.at..(ev.next - 1) :
                                  t.code_lengths[i + 1] = 0
                      ELSE /\ ev.next = ev.at + 1
                           /\ t.code_lengths[ev.at + 1] = ev.val - 2
        /\ t.built =>
               /\ Len(t.code_lengths) = t.n
               /\ t.log[Len(t.log)].next = t.n

\* a code table of 510 zero lengths was built from a single-code temp tree
\* that took no bits: the table is the 9 bits of its count
C17_Witness ==
    \E t \in TablesOf({"code"}) :
        t.built /\ t.n = 510 /\ Len(t.log) = 510 /\ t.to - t.from = 9
\* C18: every code length that read_temp_table and read_offset_table store
\* in the 8-bit length array is the value read_length_value returned.
C18_LengthsStoredExactly ==
    \A t \in TablesOf({"temp", "offset"}) : \A e \in 1..Len(t.log) :
        t.code_lengths[t.log[e].at + 1] = t.log[e].val
-----------------------------------------------------------------------------
(* Block headers and the commands that follow them.                        *)

\* the bit after the last field of a header that was read completely
HeaderEnd(h) == h.tables[Len(h.tables)].to

\* C19: a call to read that reads a complete header declaring 0 commands
\* decodes no command for it and reads the next header, starting at the
\* bit after it; only the last header a call reads can be incomplete or
\* declare commands; a command is decoded, and block_remaining decremented,
\* only with commands left in the block or after a complete header with a
\* length that is not 0; block_remaining never goes below 0.
C19_EmptyBlockReadsNextHeader ==
    [][ LET h == trace'.hdrs
        IN  /\ \A i \in 1..Len(h) :
                   h[i].ok /\ h[i].len = 0 =>
                       i < Len(h) /\ h[i + 1].from = HeaderEnd(h[i])
            /\ \A i \in 1..(Len(h) - 1) : h[i].ok /\ h[i].len = 0
            /\ h # <<>> => decoder.block_remaining = 0
            /\ IF trace'.code # NONE
               THEN /\ h # <<>> => h[Len(h)].ok /\ h[Len(h)].len > 0
                    /\ CommandsAtStart > 0
                    /\ decoder'.block_remaining = CommandsAtStart - 1
               ELSE /\ h # <<>> /\ ~h[Len(h)].ok
                    /\ decoder'.block_remaining =
                          (IF h[Len(h)].len = NONE THEN 0 ELSE h[Len(h)].len)
            /\ decoder'.block_remaining >= 0 ]_vars

\* a call read a complete header of 0 commands, then a header with
\* commands, and decoded the first of them
C19_Witness ==
    /\ Len(trace.hdrs) = 2
    /\ trace.hdrs[1].ok /\ trace.hdrs[1].len = 0
    /\ trace.hdrs[2].ok /\ trace.hdrs[2].len > 0
    /\ trace.code >= 0
    /\ result > 0
    /\ decoder.block_remaining = trace.hdrs[2].len - 1
\* a table was read to its end: its tree was stored
Complete(t) == t.built \/ t.single # NONE

\* The fields of the header h were taken in the order block length (16
\* bits), temp table, code table, offset table, each from the bit the one
\* before ended at and only after the one before was complete; the tree
\* the temp table left in offset_tree is there when read_code_table starts
\* and when it ends, and the offset table starts from it.
FieldOrder(h) ==
    LET t == h.tables
    IN  /\ h.len = NONE => t = <<>>
        /\ Len(t) <= 3
        /\ h.ok <=> (Len(t) = 3 /\ Complete(t[3]))
        /\ Len(t) >= 1 =>
               t[1].kind = "temp" /\ t[1].from = h.from + 16
        /\ Len(t) >= 2 =>
               /\ t[2].kind = "code"
               /\ Complete(t[1])
               /\ t[2].from = t[1].to
               /\ t[2].offset_tree_in = t[1].offset_tree_out
               /\ t[2].offset_tree_out = t[1].offset_tree_out
        /\ Len(t) >= 3 =>
               /\ t[3].kind = "offset"
               /\ Complete(t[2])
               /\ t[3].from = t[2].to
               /\ t[3].offset_tree_in = t[1].offset_tree_out

\* every header a call reads has its fields in that order
HeadersInOrder == \A h \in 1..Len(trace.hdrs) : FieldOrder(trace.hdrs[h])

\* C20: the fields of a block header are consumed in the order block
\* length, temp table, code table, offset table; offset_tree holds the temp
\* tree during all of read_code_table and is overwritten by the offset
\* table only after the code table is complete; and whenever a command of
\* a block is decoded, offset_tree holds the tree that the offset table of
\* that block's header stored: the header was read completely, in this
\* call or in the call before the first command of the block, and
\* offset_tree has not changed since.
C20_OffsetTreeOfCurrentBlock ==
    [][ /\ \A h \in 1..Len(trace'.hdrs) : FieldOrder(trace'.hdrs[h])
        /\ trace'.code # NONE =>
               IF trace'.hdrs # <<>>
               THEN LET h == trace'.hdrs[Len(trace'.hdrs)]
                    IN  h.ok /\ decoder'.offset_tree =
                                    h.tables[3].offset_tree_out
               ELSE /\ decoder'.offset_tree = decoder.offset_tree
                    /\ trace.hdrs # <<>> =>
                           trace.hdrs[Len(trace.hdrs)].ok ]_vars
\* C21: reading a block header, complete or not, leaves the ring buffer and
\* ringbuf_pos as they were, so that a call that decodes no command leaves
\* them unchanged and a call that decodes one writes its bytes from the
\* position the earlier blocks left; and a call to read that starts with
\* block_remaining > 0 leaves code_tree and offset_tree unchanged.
C21_HeaderKeepsRingBuffer ==
    [][ /\ \A h \in 1..Len(trace'.hdrs) : trace'.hdrs[h].ring_same
        /\ trace'.code \in {NONE, -1} =>
               /\ decoder'.ringbuf = decoder.ringbuf
               /\ decoder'.ringbuf_pos = decoder.ringbuf_pos
        /\ decoder'.ringbuf_pos = (decoder.ringbuf_pos + result') % RBS
        /\ \A i \in 0..(result' - 1) :
               RingAt(decoder', (decoder.ringbuf_pos + i) % RBS)
                   = buf'[i + 1].byte
        /\ decoder.block_remaining > 0 =>
               /\ trace'.hdrs = <<>>
               /\ decoder'.code_tree = decoder.code_tree
               /\ decoder'.offset_tree = decoder.offset_tree ]_vars

\* a call read the header of a later block and its first command copied
\* the literal that an earlier block had emitted
C21_Witness ==
    /\ trace.hdrs # <<>>
    /\ trace.hdrs[Len(trace.hdrs)].ok
    /\ trace.code >= 256
    /\ trace.offset = 0
    /\ result > 0
    /\ Len(total) > result
    /\ total[Len(total) - result] = 66
    /\ buf[1].byte = 66
-----------------------------------------------------------------------------
(* A reader whose caller extracts directories, with the history kept.      *)

\* The largest number of files of a stream of directories.
MaxDirFiles == 3

\* the directories a and a/b, a directory whose header has no path, a
\* symbolic link, a file at the top level and a file in a
DirEntries ==
    {Header(LHA_COMPRESS_TYPE_DIR, path, FALSE, "LHA_OS_TYPE_UNIX", 0, 0) :
         path \in {<<"a">>, <<"a", "b">>, <<>>}}
    \cup {Header(LHA_COMPRESS_TYPE_DIR, <<>>, TRUE, "LHA_OS_TYPE_UNIX", 0, 0)}
    \cup {FileOf(<<>>, "LHA_OS_TYPE_UNIX", path) : path \in {<<>>, <<"a">>}}

\* The outcomes of the environment during an extract of these: success
\* with the name of the header or with a name of the caller's, with that
\* name where the name of the header could not be built, mkdir or symlink
\* fails, or the call does not return where it uses a header whose memory
\* has been given back.
DirEnvs ==
    {Succeeds, [Succeeds EXCEPT !.mkdir_ok = FALSE],
     [Succeeds EXCEPT !.symlink_ok = FALSE],
     [Succeeds EXCEPT !.path_ok = FALSE],
     [Succeeds EXCEPT !.stop = TRUE]}
    \cup {[Succeeds EXCEPT !.filename = f] : f \in Filenames}
    \cup {[Succeeds EXCEPT !.filename = f, !.path_ok = FALSE] :
             f \in Filenames}

DirNextFile == NextFileOf(DirEntries, MaxDirFiles, TRUE)

DirExtract == ExtractOf(DirEnvs, TRUE)

DirSetDirPolicy == SetDirPolicyOf(TRUE)

NextDirs == DirNextFile \/ DirExtract \/ DirSetDirPolicy \/ Free

SpecDirs == InitReader /\ [][NextDirs]_vars

-----------------------------------------------------------------------------
(* Properties of the reader's deferred directories.                        *)

\* the number of times id occurs in the list log
Occurs(log, id) == Cardinality({k \in 1..Len(log) : log[k] = id})

\* the header objects allocated so far
HeaderIds == 1..Len(basic.headers)

\* C22: in every sequence of lha_reader_next_file and lha_reader_extract
\* calls (no call of lha_reader_set_dir_policy among them)
\* lha_reader_next_file returns NULL only when dir_stack is empty; every
\* header that extract pushed on dir_stack is returned as a fake directory
\* exactly once: never a second time, only if it was pushed, and before
\* the first NULL; once NULL has been returned no header is returned
\* again.
C22_StackedDirsReturnedOnce ==
    ~history.set =>
        /\ last.op = "next_file" /\ last.ret = 0 => reader.dir_stack = NULL
        /\ \A id \in HeaderIds :
               /\ Occurs(history.fakes, id) <= 1
               /\ Occurs(history.fakes, id) = 1 =>
                      Occurs(history.pushed, id) >= 1
               /\ history.null /\ Occurs(history.pushed, id) >= 1 =>
                      Occurs(history.fakes, id) = 1
        /\ ~history.late
\* a file of the input stream that the basic reader is at and that
\* lha_reader_next_file has not returned yet
Pending ==
    /\ reader.curr_file_type = "CURR_FILE_FAKE_DIR"
    /\ basic.curr_file # NoFile

\* the basic reader goes on to another file or to the end of the stream
Advances == basic'.count # basic.count \/ basic'.eof # basic.eof

\* C23: the files returned as normal files are the files of the basic
\* reader, each once and in stream order, the basic reader being at most
\* the one pending file ahead; the basic reader is advanced only when the
\* file returned before was the stream start or a normal file; and while a
\* file is pending no directory is popped twice, so that the stack runs
\* out and the pending file is returned after the popped directories.  The
\* files returned are those of the history, which is kept until
\* lha_reader_set_dir_policy is called.
C23_NormalFilesAreTheStream ==
    /\ [](~history.set =>
          /\ \A k \in 1..Len(history.normals) : history.normals[k] = k
          /\ Len(history.normals) < MaxLog =>
                 basic.count = Len(history.normals) + (IF Pending THEN 1 ELSE 0)
          /\ Pending => \A id \in HeaderIds : Occurs(history.popped, id) <= 1)
    /\ [][Advances => reader.curr_file_type
                          \in {"CURR_FILE_START", "CURR_FILE_NORMAL"}]_vars

\* whether end_of_top_dir is to hold in a call of lha_reader_next_file
\* that finds the header top on top of dir_stack and the input file input
EndOfTop(top, input) ==
    /\ top # NULL
    /\ \/ input = NoFile
       \/ input.path = <<>>
       \/ ~BeginsWith(input.path, basic.headers[top].hdr.path)

\* a call of lha_reader_next_file before the end of the stream was returned
\* gives the directory on top of dir_stack, a header whose memory has not
\* been given back, as a fake directory exactly when EndOfTop holds of the
\* input file the basic reader is at after the call, and that input file
\* otherwise
PopRule ==
    /\ last'.op = "next_file" /\ reader'.dir_policy = reader.dir_policy
    /\ reader.curr_file_type # "CURR_FILE_EOF"
    /\ reader.dir_stack = NULL \/ ~Freed(basic.headers, reader.dir_stack)
    =>
        IF EndOfTop(reader.dir_stack, basic'.curr_file)
        THEN /\ reader'.curr_file_type = "CURR_FILE_FAKE_DIR"
             /\ reader'.curr_file.id = reader.dir_stack
        ELSE /\ reader'.curr_file_type # "CURR_FILE_FAKE_DIR"
             /\ reader'.curr_file = basic'.curr_file

\* every header of dir_stack lies within the directory of the header below
\* it
Nested ==
    \A id \in HeaderIds :
        /\ basic.headers[id].next # NULL
        /\ ~Freed(basic.headers, basic.headers[id].next)
        =>
            BeginsWith(basic.headers[id].hdr.path,
                       basic.headers[basic.headers[id].next].hdr.path)

\* C24: under LHA_READER_DIR_END_OF_DIR, the policy of a reader on which
\* lha_reader_set_dir_policy was not called, lha_reader_next_file returns the
\* directory on top of dir_stack as a fake directory exactly when the stack
\* is not empty and the input has ended or the next input file's path is
\* NULL or does not begin with the directory's path, and the next input
\* file otherwise; no file is returned as a normal file after a directory
\* it lies in was returned as a fake directory; and the directories of the
\* stack are nested, the innermost on top.
C24_DirAfterItsFiles ==
    /\ [](~history.set => ~history.inside /\ Nested)
    /\ [][~history.set => PopRule]_vars

-----------------------------------------------------------------------------
(* Properties of the reader's decoder objects.                             *)

\* the LHADecoder objects the reader has a pointer to
Held == {reader.decoder, reader.inner_decoder} \ {NULL}

\* C25: each decoder object that open_decoder created is freed exactly
\* once, by the next lha_reader_next_file or by lha_reader_free: none is
\* freed twice, one that is not freed yet is the reader's decoder or
\* inner_decoder (none is lost when open_decoder runs again for the same
\* file), after lha_reader_next_file decoder and inner_decoder are NULL,
\* and after lha_reader_next_file or lha_reader_free every object is freed.
C25_DecodersFreedOnce ==
    /\ \A id \in 1..Len(objects) :
           /\ objects[id].freed <= 1
           /\ objects[id].freed = 0 => id \in Held
    /\ last.op = "next_file" =>
           reader.decoder = NULL /\ reader.inner_decoder = NULL
    /\ last.op \in {"next_file", "free"} =>
           \A id \in 1..Len(objects) : objects[id].freed = 1

====
